---- MODULE Spec2Model ----
(***************************************************************************)
(* A model of cargo-mutants' discovery core (src/visit.rs): the tree       *)
(* walker walk_tree, the per-file DiscoveryVisitor, the module-file        *)
(* resolver find_mod_source, the replacement synthesizer                   *)
(* type_replacements and the token pretty-printer.                         *)
(***************************************************************************)
EXTENDS Integers, Sequences, FiniteSets, TLC

(***************************************************************************)
(* Token streams (proc_macro2::TokenTree).  A token is an identifier, a    *)
(* literal, a single punctuation character or a delimited group.           *)
(***************************************************************************)
Id(s) == [t |-> "ident", s |-> s, ts |-> <<>>]
Lit(s) == [t |-> "lit", s |-> s, ts |-> <<>>]
P(c) == [t |-> "punct", s |-> c, ts |-> <<>>]
G(d, ts) == [t |-> "group", s |-> d, ts |-> ts]

PathSep == <<P(":"), P(":")>>

\* Concatenation of a sequence of sequences.
RECURSIVE Flatten(_)
Flatten(ss) == IF ss = <<>> THEN <<>> ELSE Head(ss) \o Flatten(Tail(ss))

\* Concatenation of a sequence of strings.
RECURSIVE JoinStr(_)
JoinStr(ps) == IF ps = <<>> THEN "" ELSE Head(ps) \o JoinStr(Tail(ps))

\* The pieces of a sequence of strings, separated by sep (itertools join).
RECURSIVE JoinWith(_, _)
JoinWith(ps, sep) ==
    IF ps = <<>> THEN ""
    ELSE IF Len(ps) = 1 THEN ps[1]
    ELSE ps[1] \o sep \o JoinWith(Tail(ps), sep)

(***************************************************************************)
(* tokens_to_pretty_string.  The buffer b is kept as the sequence of the   *)
(* pieces pushed onto it (a punctuation character, an identifier, a        *)
(* literal, a bracket or a single space), so that ends_with can be         *)
(* decided; the returned String is the concatenation of the pieces.        *)
(***************************************************************************)
EndsWithArrow(b) == Len(b) >= 2 /\ b[Len(b)] = ">" /\ b[Len(b) - 1] = "-"

EndsWithSpace(b) == Len(b) >= 1 /\ b[Len(b)] = " "

OpenDelim(d) ==
    CASE d = "brace" -> <<"{">>
      [] d = "bracket" -> <<"[">>
      [] d = "paren" -> <<"(">>
      [] OTHER -> <<>>

CloseDelim(d) ==
    CASE d = "brace" -> <<"}">>
      [] d = "bracket" -> <<"]">>
      [] d = "paren" -> <<")">>
      [] OTHER -> <<>>

NoSpaceBeforePunct == {",", ";", "<", ">", ":", ".", "!"}

RECURSIVE PrettyPieces(_)
RECURSIVE PrettyFrom(_, _, _)
PrettyFrom(ts, i, b) ==
    IF i > Len(ts) THEN b
    ELSE
      LET tt == ts[i]
          hasNext == i < Len(ts)
      IN CASE tt.t = "punct" ->
                LET b1 == Append(b, tt.s)
                IN PrettyFrom(ts, i + 1,
                      IF hasNext /\ (EndsWithArrow(b1) \/ tt.s = "," \/ tt.s = ";")
                      THEN Append(b1, " ") ELSE b1)
           [] tt.t \in {"ident", "lit"} ->
                LET b1 == Append(b, tt.s)
                    space ==
                      /\ hasNext
                      /\ \/ ts[i + 1].t \in {"ident", "lit"}
                         \/ /\ ts[i + 1].t = "punct"
                            /\ ts[i + 1].s \notin NoSpaceBeforePunct
                IN PrettyFrom(ts, i + 1, IF space THEN Append(b1, " ") ELSE b1)
           [] OTHER ->
                PrettyFrom(ts, i + 1,
                    b \o OpenDelim(tt.s) \o PrettyPieces(tt.ts) \o CloseDelim(tt.s))

PrettyPieces(ts) == PrettyFrom(ts, 1, <<>>)

tokens_to_pretty_string(ts) == JoinStr(PrettyPieces(ts))

(***************************************************************************)
(* Types (syn::Type) and return types (syn::ReturnType).                   *)
(***************************************************************************)
\* A generic argument of a path segment.
ArgType(ty) == [g |-> "type", ty |-> <<ty>>, name |-> ""]
ArgLifetime(n) == [g |-> "lifetime", ty |-> <<>>, name |-> n]

\* A path segment: PathArguments::None, or AngleBracketed with its arguments.
Seg(ident) == [ident |-> ident, angle |-> FALSE, args |-> <<>>]
SegA(ident, args) == [ident |-> ident, angle |-> TRUE, args |-> args]

TPath(segs) == [k |-> "path", lead |-> FALSE, segs |-> segs, elem |-> <<>>,
                mut |-> FALSE, toks |-> <<>>]
TArray(e, len) == [k |-> "array", lead |-> FALSE, segs |-> <<>>, elem |-> <<e>>,
                   mut |-> FALSE, toks |-> len]
TRef(mut, e) == [k |-> "ref", lead |-> FALSE, segs |-> <<>>, elem |-> <<e>>,
                 mut |-> mut, toks |-> <<>>]
TTuple(elems) == [k |-> "tuple", lead |-> FALSE, segs |-> <<>>, elem |-> elems,
                  mut |-> FALSE, toks |-> <<>>]
TNever == [k |-> "never", lead |-> FALSE, segs |-> <<>>, elem |-> <<>>,
           mut |-> FALSE, toks |-> <<>>]
\* Any other type (impl Trait, a function pointer, ...), kept as its tokens.
TOther(toks) == [k |-> "other", lead |-> FALSE, segs |-> <<>>, elem |-> <<>>,
                 mut |-> FALSE, toks |-> toks]

T1(ident) == TPath(<<Seg(ident)>>)

ReturnDefault == [default |-> TRUE, ty |-> <<>>]
ReturnOf(ty) == [default |-> FALSE, ty |-> <<ty>>]

LastSeg(path) == path.segs[Len(path.segs)]

\* Path::is_ident: one segment, no leading colon, no arguments.
is_ident(path, ident) ==
    /\ ~path.lead
    /\ Len(path.segs) = 1
    /\ ~path.segs[1].angle
    /\ path.segs[1].ident = ident

path_ends_with(path, ident) == Len(path.segs) > 0 /\ LastSeg(path).ident = ident

path_is_float(path) == \E s \in {"f32", "f64"} : is_ident(path, s)

path_is_unsigned(path) ==
    \E s \in {"u8", "u16", "u32", "u64", "u128", "usize"} : is_ident(path, s)

path_is_signed(path) ==
    \E s \in {"i8", "i16", "i32", "i64", "i128", "isize"} : is_ident(path, s)

path_is_nonzero_signed(path) ==
    /\ Len(path.segs) > 0
    /\ LastSeg(path).ident \in {"NonZeroIsize", "NonZeroI8", "NonZeroI16",
                                "NonZeroI32", "NonZeroI64", "NonZeroI128"}

path_is_nonzero_unsigned(path) ==
    /\ Len(path.segs) > 0
    /\ LastSeg(path).ident \in {"NonZeroUsize", "NonZeroU8", "NonZeroU16",
                                "NonZeroU32", "NonZeroU64", "NonZeroU128"}

\* The Option results below are sequences: <<>> for None, <<x>> for Some(x).
match_first_type_arg(path, expected_ident) ==
    IF /\ Len(path.segs) > 0
       /\ LastSeg(path).ident = expected_ident
       /\ LastSeg(path).angle
       /\ Len(LastSeg(path).args) > 0
       /\ LastSeg(path).args[1].g = "type"
    THEN LastSeg(path).args[1].ty
    ELSE <<>>

\* result_ok_type taking the last generic argument, the error type of Result<T, E>.
result_ok_type_LastArg(path) ==
    IF /\ Len(path.segs) > 0
       /\ LastSeg(path).ident = "Result"
       /\ LastSeg(path).angle
       /\ Len(LastSeg(path).args) > 0
       /\ LastSeg(path).args[Len(LastSeg(path).args)].g = "type"
    THEN LastSeg(path).args[Len(LastSeg(path).args)].ty
    ELSE <<>>

result_ok_type(path) == match_first_type_arg(path, "Result")

OneTypeArg(last) ==
    IF last.angle /\ Len(last.args) = 1 /\ last.args[1].g = "type"
    THEN <<[ident |-> last.ident, inner |-> last.args[1].ty[1]]>>
    ELSE <<>>

\* known_container returning the whole path of the container, not its last identifier.
known_container_FullPath(path) ==
    IF /\ Len(path.segs) > 0
       /\ LastSeg(path).ident \in {"Box", "Cell", "RefCell", "Arc", "Rc", "Mutex"}
       /\ OneTypeArg(LastSeg(path)) # <<>>
    THEN <<[ident |-> JoinWith([i \in 1..Len(path.segs) |-> path.segs[i].ident], "::"),
            inner |-> OneTypeArg(LastSeg(path))[1].inner]>>
    ELSE <<>>

known_container(path) ==
    IF /\ Len(path.segs) > 0
       /\ LastSeg(path).ident \in {"Box", "Cell", "RefCell", "Arc", "Rc", "Mutex"}
    THEN OneTypeArg(LastSeg(path))
    ELSE <<>>

known_collection(path) ==
    IF /\ Len(path.segs) > 0
       /\ LastSeg(path).ident \in {"BinaryHeap", "BTreeSet", "HashSet",
                                   "LinkedList", "VecDeque"}
    THEN OneTypeArg(LastSeg(path))
    ELSE <<>>

\* maybe_collection_or_container counting every generic argument, lifetimes too.
maybe_collection_or_container_CountAll(path) ==
    IF Len(path.segs) > 0 THEN OneTypeArg(LastSeg(path)) ELSE <<>>

maybe_collection_or_container(path) ==
    IF Len(path.segs) > 0 /\ LastSeg(path).angle
    THEN LET last == LastSeg(path)
             type_args == SelectSeq(last.args, LAMBDA a : a.g = "type")
         IN IF Len(type_args) = 1
            THEN <<[ident |-> last.ident, inner |-> type_args[1].ty[1]]>>
            ELSE <<>>
    ELSE <<>>

\* quote! { #head(#rep) } for each rep of reps
CallEach(head, reps) == [i \in 1..Len(reps) |-> head \o <<G("paren", reps[i])>>]

\* quote! { Default::default() }
DefaultDefault == <<Id("Default")>> \o PathSep \o <<Id("default"), G("paren", <<>>)>>

RECURSIVE type_replacements(_, _)
type_replacements(type_, error_exprs) ==
    CASE type_.k = "path" ->
           LET path == type_ IN
           IF is_ident(path, "bool") THEN << <<Id("true")>>, <<Id("false")>> >>
           ELSE IF is_ident(path, "String")
             THEN << <<Id("String")>> \o PathSep \o <<Id("new"), G("paren", <<>>)>>,
                     <<Lit("\"xyzzy\""), P("."), Id("into"), G("paren", <<>>)>> >>
           ELSE IF is_ident(path, "str")
             THEN << <<Lit("\"\"")>>, <<Lit("\"xyzzy\"")>> >>
           ELSE IF path_is_unsigned(path) THEN << <<Lit("0")>>, <<Lit("1")>> >>
           ELSE IF path_is_signed(path)
             THEN << <<Lit("0")>>, <<Lit("1")>>, <<P("-"), Lit("1")>> >>
           ELSE IF path_is_nonzero_signed(path)
             THEN << <<Lit("1")>>, <<P("-"), Lit("1")>> >>
           ELSE IF path_is_nonzero_unsigned(path) THEN << <<Lit("1")>> >>
           ELSE IF path_is_float(path)
             THEN << <<Lit("0.0")>>, <<Lit("1.0")>>, <<P("-"), Lit("1.0")>> >>
           ELSE IF path_ends_with(path, "Result")
             THEN (IF result_ok_type(path) # <<>>
                   THEN CallEach(<<Id("Ok")>>,
                                 type_replacements(result_ok_type(path)[1], error_exprs))
                   ELSE << <<Id("Ok"), G("paren", DefaultDefault)>> >>)
                  \o CallEach(<<Id("Err")>>, error_exprs)
           ELSE IF path_ends_with(path, "HttpResponse")
             THEN << <<Id("HttpResponse")>> \o PathSep \o <<Id("Ok"), G("paren", <<>>),
                     P("."), Id("finish"), G("paren", <<>>)>> >>
           ELSE IF match_first_type_arg(path, "Option") # <<>>
             THEN << <<Id("None")>> >>
                  \o CallEach(<<Id("Some")>>,
                              type_replacements(match_first_type_arg(path, "Option")[1],
                                                error_exprs))
           ELSE IF match_first_type_arg(path, "Vec") # <<>>
             THEN LET reps == type_replacements(match_first_type_arg(path, "Vec")[1],
                                                error_exprs)
                  IN << <<Id("vec"), P("!"), G("bracket", <<>>)>> >>
                     \o [i \in 1..Len(reps) |->
                            <<Id("vec"), P("!"), G("bracket", reps[i])>>]
           ELSE IF known_container(path) # <<>>
             THEN LET c == known_container(path)[1]
                  IN CallEach(<<Id(c.ident)>> \o PathSep \o <<Id("new")>>,
                              type_replacements(c.inner, error_exprs))
           ELSE IF known_collection(path) # <<>>
             THEN LET c == known_collection(path)[1]
                      reps == type_replacements(c.inner, error_exprs)
                  IN << <<Id(c.ident)>> \o PathSep \o <<Id("new"), G("paren", <<>>)>> >>
                     \o [i \in 1..Len(reps) |->
                            <<Id(c.ident)>> \o PathSep
                              \o <<Id("from_iter"), G("paren", <<G("bracket", reps[i])>>)>>]
           ELSE IF maybe_collection_or_container(path) # <<>>
             THEN LET c == maybe_collection_or_container(path)[1]
                      reps == type_replacements(c.inner, error_exprs)
                  IN << <<Id(c.ident)>> \o PathSep \o <<Id("new"), G("paren", <<>>)>> >>
                     \o Flatten([i \in 1..Len(reps) |->
                            << <<Id(c.ident)>> \o PathSep
                                 \o <<Id("from_iter"),
                                      G("paren", <<G("bracket", reps[i])>>)>>,
                               <<Id(c.ident)>> \o PathSep
                                 \o <<Id("new"), G("paren", reps[i])>>,
                               <<Id(c.ident)>> \o PathSep
                                 \o <<Id("from"), G("paren", reps[i])>> >>])
           ELSE << DefaultDefault >>
      [] type_.k = "array" ->
           LET reps == type_replacements(type_.elem[1], error_exprs)
           IN [i \in 1..Len(reps) |->
                  <<G("bracket", reps[i] \o <<P(";")>> \o type_.toks)>>]
      [] type_.k = "ref" /\ ~type_.mut ->
           IF type_.elem[1].k = "path" /\ is_ident(type_.elem[1], "str")
           THEN << <<Lit("\"\"")>>, <<Lit("\"xyzzy\"")>> >>
           ELSE LET reps == type_replacements(type_.elem[1], error_exprs)
                IN [i \in 1..Len(reps) |-> <<P("&")>> \o reps[i]]
      [] type_.k = "ref" /\ type_.mut ->
           LET reps == type_replacements(type_.elem[1], error_exprs)
           IN [i \in 1..Len(reps) |->
                  <<Id("Box")>> \o PathSep
                    \o <<Id("leak"),
                         G("paren", <<Id("Box")>> \o PathSep
                                    \o <<Id("new"), G("paren", reps[i])>>)>>]
      [] type_.k = "tuple" /\ type_.elem = <<>> -> << <<G("paren", <<>>)>> >>
      [] type_.k = "never" -> <<>>
      [] OTHER -> << DefaultDefault >>

\* return_type_replacements without its arm for an absent return type.
return_type_replacements_NoUnit(return_type, error_exprs) ==
    IF return_type.default THEN << DefaultDefault >>
    ELSE type_replacements(return_type.ty[1], error_exprs)

return_type_replacements(return_type, error_exprs) ==
    IF return_type.default THEN << <<G("paren", <<>>)>> >>
    ELSE type_replacements(return_type.ty[1], error_exprs)

(***************************************************************************)
(* The tokens of a type (syn's ToTokens), used to render the return type.  *)
(***************************************************************************)
RECURSIVE TypeTokens(_)
RECURSIVE ArgsTokens(_, _)
ArgsTokens(args, i) ==
    IF i > Len(args) THEN <<>>
    ELSE (IF args[i].g = "type" THEN TypeTokens(args[i].ty[1])
          ELSE <<P("'"), Id(args[i].name)>>)
         \o (IF i < Len(args) THEN <<P(",")>> ELSE <<>>)
         \o ArgsTokens(args, i + 1)

RECURSIVE SegsTokens(_, _)
SegsTokens(segs, i) ==
    IF i > Len(segs) THEN <<>>
    ELSE <<Id(segs[i].ident)>>
         \o (IF segs[i].angle
             THEN <<P("<")>> \o ArgsTokens(segs[i].args, 1) \o <<P(">")>>
             ELSE <<>>)
         \o (IF i < Len(segs) THEN PathSep ELSE <<>>)
         \o SegsTokens(segs, i + 1)

RECURSIVE TupleTokens(_, _)
TupleTokens(elems, i) ==
    IF i > Len(elems) THEN <<>>
    ELSE TypeTokens(elems[i])
         \o (IF i < Len(elems) \/ Len(elems) = 1 THEN <<P(",")>> ELSE <<>>)
         \o TupleTokens(elems, i + 1)

TypeTokens(ty) ==
    CASE ty.k = "path" -> (IF ty.lead THEN PathSep ELSE <<>>) \o SegsTokens(ty.segs, 1)
      [] ty.k = "array" ->
           <<G("bracket", TypeTokens(ty.elem[1]) \o <<P(";")>> \o ty.toks)>>
      [] ty.k = "ref" ->
           <<P("&")>> \o (IF ty.mut THEN <<Id("mut")>> ELSE <<>>)
                      \o TypeTokens(ty.elem[1])
      [] ty.k = "tuple" -> <<G("paren", TupleTokens(ty.elem, 1))>>
      [] ty.k = "never" -> <<P("!")>>
      [] OTHER -> ty.toks

return_type_to_string(return_type) ==
    IF return_type.default THEN ""
    ELSE "->" \o " " \o tokens_to_pretty_string(TypeTokens(return_type.ty[1]))

(***************************************************************************)
(* Syntax trees (syn::File).  A node is a function item, a method of an    *)
(* impl block, an impl block, a module item, or any other syntax (an       *)
(* expression statement, a struct, a trait, ...) whose children the        *)
(* default traversal of syn::visit descends into.  body holds the          *)
(* statements of a function's block, the items of an impl block or of an   *)
(* inline module, or the items nested in other syntax.                     *)
(***************************************************************************)
\* An attribute: its path, and the paths of its nested meta items; ok is
\* FALSE when Attribute::parse_nested_meta reports an error.
Attr(path) == [path |-> path, nested |-> <<>>, ok |-> TRUE]
AttrN(path, nested) == [path |-> path, nested |-> nested, ok |-> TRUE]
AttrBad(path, nested) == [path |-> path, nested |-> nested, ok |-> FALSE]

Fn(ident, attrs, unsafety, output, body) ==
    [kind |-> "fn", ident |-> ident, raw |-> FALSE, attrs |-> attrs,
     unsafety |-> unsafety, output |-> output, body |-> body, inline |-> TRUE,
     trait_ |-> <<>>, self_ty |-> <<>>]
ImplFn(ident, attrs, unsafety, output, body) ==
    [kind |-> "implfn", ident |-> ident, raw |-> FALSE, attrs |-> attrs,
     unsafety |-> unsafety, output |-> output, body |-> body, inline |-> TRUE,
     trait_ |-> <<>>, self_ty |-> <<>>]
Impl(attrs, trait_, self_ty, body) ==
    [kind |-> "impl", ident |-> "", raw |-> FALSE, attrs |-> attrs,
     unsafety |-> FALSE, output |-> ReturnDefault, body |-> body, inline |-> TRUE,
     trait_ |-> trait_, self_ty |-> self_ty]
ModInline(ident, attrs, body) ==
    [kind |-> "mod", ident |-> ident, raw |-> FALSE, attrs |-> attrs,
     unsafety |-> FALSE, output |-> ReturnDefault, body |-> body, inline |-> TRUE,
     trait_ |-> <<>>, self_ty |-> <<>>]
ModExt(ident, attrs) ==
    [kind |-> "mod", ident |-> ident, raw |-> FALSE, attrs |-> attrs,
     unsafety |-> FALSE, output |-> ReturnDefault, body |-> <<>>, inline |-> FALSE,
     trait_ |-> <<>>, self_ty |-> <<>>]
Other(body) ==
    [kind |-> "other", ident |-> "", raw |-> FALSE, attrs |-> <<>>,
     unsafety |-> FALSE, output |-> ReturnDefault, body |-> body, inline |-> TRUE,
     trait_ |-> <<>>, self_ty |-> <<>>]

(***************************************************************************)
(* Attribute and signature filters.                                        *)
(***************************************************************************)
path_is(path, idents) == path = idents

\* fn_sig_excluded letting unsafe functions through.
fn_sig_excluded_Never(sig) == FALSE

fn_sig_excluded(sig) == sig.unsafety

block_is_empty(block) == block.body = <<>>

attr_is_cfg_test(attr) ==
    IF ~path_is(attr.path, <<"cfg">>) THEN FALSE
    ELSE IF ~attr.ok THEN FALSE
    ELSE \E i \in 1..Len(attr.nested) : attr.nested[i] = <<"test">>

attr_is_test(attr) == attr.path = <<"test">>

attr_is_mutants_skip(attr) ==
    IF path_is(attr.path, <<"mutants", "skip">>) THEN TRUE
    ELSE IF ~path_is(attr.path, <<"cfg_attr">>) THEN FALSE
    ELSE IF ~attr.ok THEN FALSE
    ELSE \E i \in 1..Len(attr.nested) : path_is(attr.nested[i], <<"mutants", "skip">>)

attrs_excluded(attrs) ==
    \E i \in 1..Len(attrs) :
        attr_is_cfg_test(attrs[i]) \/ attr_is_test(attrs[i])
            \/ attr_is_mutants_skip(attrs[i])

(***************************************************************************)
(* DiscoveryVisitor.  The visitor state st holds its mutable fields:       *)
(* mutants, external_mods and namespace_stack; paired records that every   *)
(* assert_eq in in_namespace has passed.  ctx holds the fields it only     *)
(* reads: source_file and error_exprs.  A span is the position of the      *)
(* function in the tree: the child indexes on the way to it.               *)
(***************************************************************************)
NewVisitor ==
    [mutants |-> <<>>, external_mods |-> <<>>, namespace_stack |-> <<>>,
     paired |-> TRUE]

collect_fn_mutants(st, return_type, span, ctx) ==
    LET full_function_name == JoinWith(st.namespace_stack, "::")
        return_type_str == return_type_to_string(return_type)
        reps == return_type_replacements(return_type, ctx.error_exprs)
        new_mutants ==
            [i \in 1..Len(reps) |->
                [source_file |-> ctx.source_file,
                 function_name |-> full_function_name,
                 return_type |-> return_type_str,
                 replacement |-> tokens_to_pretty_string(reps[i]),
                 span |-> span,
                 genre |-> "FnValue"]]
    IN [st EXCEPT !.mutants = @ \o new_mutants]

\* in_namespace: the push before the call of f, and the pop with its
\* assert_eq after it.
in_namespace_enter(st, name) == [st EXCEPT !.namespace_stack = Append(@, name)]

\* in_namespace checking the top of the stack without popping it.
in_namespace_exit_NoPop(st, name) ==
    LET n == Len(st.namespace_stack)
    IN [st EXCEPT !.paired = @ /\ n > 0 /\ st.namespace_stack[n] = name]

in_namespace_exit(st, name) ==
    LET n == Len(st.namespace_stack)
    IN [st EXCEPT !.paired = @ /\ n > 0 /\ st.namespace_stack[n] = name,
                  !.namespace_stack = IF n > 0 THEN SubSeq(@, 1, n - 1) ELSE @]

IdentString(i) == IF i.raw THEN "r#" \o i.ident ELSE i.ident

RECURSIVE VisitNode(_, _, _, _)
RECURSIVE VisitChildren(_, _, _, _, _)

\* syn::visit's default traversal of the children of a node, in source order.
VisitChildren(items, k, pos, st, ctx) ==
    IF k > Len(items) THEN st
    ELSE VisitChildren(items, k + 1, pos,
                       VisitNode(items[k], Append(pos, k), st, ctx), ctx)

\* visit_item_fn still descending into the body of a function it skips.
visit_item_fn_DescendSkipped(i, pos, st, ctx) ==
    LET function_name == IdentString(i)
    IN IF fn_sig_excluded(i) \/ attrs_excluded(i.attrs) \/ block_is_empty(i)
       THEN VisitChildren(i.body, 1, pos, st, ctx)
       ELSE in_namespace_exit(
              VisitChildren(i.body, 1, pos,
                  collect_fn_mutants(in_namespace_enter(st, function_name),
                                     i.output, pos, ctx),
                  ctx),
              function_name)

visit_item_fn(i, pos, st, ctx) ==
    LET function_name == IdentString(i)
    IN IF fn_sig_excluded(i) \/ attrs_excluded(i.attrs) \/ block_is_empty(i)
       THEN st
       ELSE in_namespace_exit(
              VisitChildren(i.body, 1, pos,
                  collect_fn_mutants(in_namespace_enter(st, function_name),
                                     i.output, pos, ctx),
                  ctx),
              function_name)

visit_impl_item_fn(i, pos, st, ctx) ==
    LET function_name == IdentString(i)
    IN IF \/ fn_sig_excluded(i)
          \/ attrs_excluded(i.attrs)
          \/ (~i.raw /\ i.ident = "new")
          \/ block_is_empty(i)
       THEN st
       ELSE in_namespace_exit(
              VisitChildren(i.body, 1, pos,
                  collect_fn_mutants(in_namespace_enter(st, function_name),
                                     i.output, pos, ctx),
                  ctx),
              function_name)

visit_item_impl(i, pos, st, ctx) ==
    IF attrs_excluded(i.attrs) THEN st
    ELSE LET type_name == tokens_to_pretty_string(i.self_ty)
         IN IF i.trait_ # <<>> /\ i.trait_[Len(i.trait_)] = "Default" THEN st
            ELSE LET name == IF i.trait_ # <<>>
                             THEN "<impl " \o i.trait_[Len(i.trait_)] \o " for "
                                    \o type_name \o ">"
                             ELSE type_name
                 IN in_namespace_exit(
                        VisitChildren(i.body, 1, pos, in_namespace_enter(st, name), ctx),
                        name)

\* visit_item_mod with the name remembered before the attributes are looked at.
visit_item_mod_PushFirst(node, pos, st, ctx) ==
    LET mod_name == node.ident
        st1 == IF ~node.inline
               THEN [st EXCEPT !.external_mods = Append(@, mod_name)]
               ELSE st
    IN IF attrs_excluded(node.attrs) THEN st1
       ELSE in_namespace_exit(
                VisitChildren(node.body, 1, pos, in_namespace_enter(st1, mod_name), ctx),
                mod_name)

visit_item_mod(node, pos, st, ctx) ==
    LET mod_name == node.ident
    IN IF attrs_excluded(node.attrs) THEN st
       ELSE LET st1 == IF ~node.inline
                       THEN [st EXCEPT !.external_mods = Append(@, mod_name)]
                       ELSE st
            IN in_namespace_exit(
                   VisitChildren(node.body, 1, pos,
                                 in_namespace_enter(st1, mod_name), ctx),
                   mod_name)

VisitNode(node, pos, st, ctx) ==
    CASE node.kind = "fn" -> visit_item_fn(node, pos, st, ctx)
      [] node.kind = "implfn" -> visit_impl_item_fn(node, pos, st, ctx)
      [] node.kind = "impl" -> visit_item_impl(node, pos, st, ctx)
      [] node.kind = "mod" -> visit_item_mod(node, pos, st, ctx)
      [] OTHER -> VisitChildren(node.body, 1, pos, st, ctx)

visit_file(syn_file, ctx) == VisitChildren(syn_file, 1, <<>>, NewVisitor, ctx)

(***************************************************************************)
(* Paths (camino::Utf8Path), as sequences of components.  A component is   *)
(* a file name split at its extension: src/lib.rs is                       *)
(* <<Dir("src"), RsFile("lib")>>.                                          *)
(***************************************************************************)
Dir(stem) == [stem |-> stem, ext |-> ""]
RsFile(stem) == [stem |-> stem, ext |-> "rs"]

\* Utf8Path::ends_with for a one-component argument <name>.rs
path_ends_with_file(path, stem) == Len(path) > 0 /\ path[Len(path)] = RsFile(stem)

path_parent(path) == SubSeq(path, 1, Len(path) - 1)

\* Utf8Path::with_extension("")
with_extension_empty(path) ==
    IF path = <<>> THEN path ELSE [path EXCEPT ![Len(path)].ext = ""]

\* dir.join(mod_name.to_owned() + tail) for the two tails of find_mod_source
join_tail(dir, mod_name, tail) ==
    IF tail = ".rs" THEN Append(dir, RsFile(mod_name))
    ELSE dir \o <<Dir(mod_name), RsFile("mod")>>

ModTails == <<".rs", "/mod.rs">>

(***************************************************************************)
(* The source trees the walker is run on.  A tree gives, for every path of *)
(* PathUniverse, the name of the file's content, or "absent".              *)
(***************************************************************************)
tree_root == <<Dir("tree")>>

P_lib == <<Dir("src"), RsFile("lib")>>
P_main == <<Dir("src"), RsFile("main")>>
P_a == <<Dir("src"), RsFile("a")>>
P_amod == <<Dir("src"), Dir("a"), RsFile("mod")>>
P_ab == <<Dir("src"), Dir("a"), RsFile("b")>>
P_b == <<Dir("src"), RsFile("b")>>

PathUniverse == {P_lib, P_main, P_a, P_amod, P_ab, P_b}

Stmt == Other(<<>>)
ResultUnit == TPath(<<SegA("Result", <<ArgType(TTuple(<<>>))>>)>>)
CfgTest == AttrN(<<"cfg">>, << <<"test">> >>)
SelfX == <<Id("X")>>

FnBool(name) == Fn(name, <<>>, FALSE, ReturnOf(T1("bool")), <<Stmt>>)
MethodBool(name) == ImplFn(name, <<>>, FALSE, ReturnOf(T1("bool")), <<Stmt>>)

\* The syntax tree of each named content (a source text that parses).
SynFile(content) ==
    CASE content = "L1" ->
           \* mod a; mod b; fn f() -> bool { ...; fn g() -> Result<()> { ... } }
           << ModExt("a", <<>>), ModExt("b", <<>>),
              Fn("f", <<>>, FALSE, ReturnOf(T1("bool")),
                 <<Stmt, Fn("g", <<>>, FALSE, ReturnOf(ResultUnit), <<Stmt>>)>>) >>
      [] content = "L2" ->
           \* #[cfg(test)] mod a; #[test] fn t() { mod b; } fn h() -> ! { ... }
           << ModExt("a", <<CfgTest>>),
              Fn("t", <<Attr(<<"test">>)>>, FALSE, ReturnDefault, <<ModExt("b", <<>>)>>),
              Fn("h", <<>>, FALSE, ReturnOf(TNever), <<Stmt>>) >>
      [] content = "L3" ->
           \* mod lib; fn f() -> bool { ... }
           << ModExt("lib", <<>>), FnBool("f") >>
      [] content = "L4" ->
           \* mod main; mod a;
           << ModExt("main", <<>>), ModExt("a", <<>>) >>
      [] content = "M1" ->
           \* mod a; fn main() { ... } mod m { mod b; }
           << ModExt("a", <<>>), Fn("main", <<>>, FALSE, ReturnDefault, <<Stmt>>),
              ModInline("m", <<>>, <<ModExt("b", <<>>)>>) >>
      [] content = "M2" ->
           \* mod lib; fn f() -> bool { ... }
           << ModExt("lib", <<>>), FnBool("f") >>
      [] content = "A1" ->
           \* mod b; impl X { fn f() -> bool {...} }
           \* impl X { fn f() -> bool {...} fn new() -> bool {...} }
           << ModExt("b", <<>>),
              Impl(<<>>, <<>>, SelfX, <<MethodBool("f")>>),
              Impl(<<>>, <<>>, SelfX, <<MethodBool("f"), MethodBool("new")>>) >>
      [] content = "AM1" ->
           \* mod b; fn k() -> Result<()> { ... }
           << ModExt("b", <<>>),
              Fn("k", <<>>, FALSE, ReturnOf(ResultUnit), <<Stmt>>) >>
      [] content = "AB1" ->
           \* fn q() -> u8 { ... }
           << Fn("q", <<>>, FALSE, ReturnOf(T1("u8")), <<Stmt>>) >>
      [] content = "B1" ->
           \* fn r() -> Result<()> { ... }
           << Fn("r", <<>>, FALSE, ReturnOf(ResultUnit), <<Stmt>>) >>
      [] OTHER -> <<>>  \* "empty": a file with no items

\* The text of content "bad" is not a syn::File.
Parses(content) == content # "bad"

\* A file with content "unreadable" is a regular file that cannot be read.
Readable(content) == content # "unreadable"

LibChoices == {"L1", "L2", "L3", "L4"}
MainChoices == {"absent", "M1", "M2"}
AChoices == {"absent", "A1", "bad"}
AmodChoices == {"absent", "AM1"}
AbChoices == {"absent", "AB1"}
BChoices == {"absent", "B1", "unreadable"}

Trees ==
    { (P_lib :> l) @@ (P_main :> m) @@ (P_a :> a) @@ (P_amod :> am)
        @@ (P_ab :> ab) @@ (P_b :> b) :
        l \in LibChoices, m \in MainChoices, a \in AChoices, am \in AmodChoices,
        ab \in AbChoices, b \in BChoices }

(***************************************************************************)
(* Options.  An Option<T> is a sequence: <<>> for None, <<x>> for Some(x). *)
(* A globset is the set of paths it matches; a regex set is a set of       *)
(* patterns.                                                               *)
(***************************************************************************)
EV1 == "anyhow!(\"mutated\")"
EV2 == "Error::Io"
EVBad == "}{"

\* syn::parse_str::<Expr>: the expression's tokens, or <<>> on a syntax error.
ParseExpr(e) ==
    CASE e = EV1 -> << <<Id("anyhow"), P("!"), G("paren", <<Lit("\"mutated\"")>>)>> >>
      [] e = EV2 -> << <<Id("Error")>> \o PathSep \o <<Id("Io")>> >>
      [] OTHER -> <<>>

ErrorValueChoices ==
    { <<>>, <<EV1, EV1>>, <<EV2, EV1>>, <<EV1, EVBad, EV2>> }

NoFilters ==
    [examine_globset |-> <<>>, exclude_globset |-> <<>>,
     examine_names |-> <<>>, exclude_names |-> <<>>]

FilterChoices ==
    { NoFilters,
      [NoFilters EXCEPT !.examine_globset = <<{P_a, P_amod, P_ab, P_b}>>],
      [NoFilters EXCEPT !.examine_globset = <<{P_lib, P_main, P_a}>>,
                        !.exclude_globset = <<{P_a, P_b}>>],
      [NoFilters EXCEPT !.exclude_globset = <<{P_lib, P_a}>>,
                        !.examine_names = <<{}>>, !.exclude_names = <<{}>>],
      [NoFilters EXCEPT !.examine_names = <<{"f", "X::f", "f::g", "Ok(())"}>>,
                        !.exclude_names = <<{"true", "f::g", "q"}>>],
      [NoFilters EXCEPT !.examine_names = <<{"nothing"}>>,
                        !.exclude_globset = <<{P_b}>>] }

globset_is_match(globset, path) == path \in globset

\* Mutant's Display rendering names its function and its replacement; a
\* pattern matches the rendering when it is one of the two.
names_is_match(names, m) ==
    \E p \in names : p = m.function_name \/ p = m.replacement

(***************************************************************************)
(* The state of one call of walk_tree.                                     *)
(***************************************************************************)
VARIABLES
    tree,          \* the source tree under the root: path -> content name
    opts,          \* the Options
    interrupted,   \* the interruption flag
    pc,            \* where walk_tree is: "start", "loop", "walk", "done"
    heap,          \* the SourceFile objects constructed; an Arc is an index
    error_exprs,   \* walk_tree's local: the parsed error values
    file_queue,    \* walk_tree's local: Arcs of the files still to visit
    source_file,   \* walk_tree's local: the Arc popped from the queue
    mutants,       \* walk_tree's local: mutants accumulated
    files,         \* walk_tree's local: Arcs of the files accumulated
    result,        \* what walk_tree returned
    walked,        \* history: the Arcs walk_file was called on, in order
    tool_called,   \* history: top_source_files has been called
    arg,           \* the arguments of a function called on its own
    ret            \* what that function returned

vars == <<tree, opts, interrupted, pc, heap, error_exprs, file_queue,
          source_file, mutants, files, result, walked, tool_called, arg, ret>>

\* The number of files one walk may visit in the model.
MaxVisits == 6

\* Result<Discovered>: Ok carries the Discovered value; Err carries the
\* error, with the text or the path it names.
NoResult ==
    [kind |-> "none", text |-> "", path |-> <<>>, mutants |-> <<>>, files |-> <<>>]
Err(kind, text, path) ==
    [kind |-> kind, text |-> text, path |-> path, mutants |-> <<>>, files |-> <<>>]
Ok(ms, fs) ==
    [kind |-> "Ok", text |-> "", path |-> <<>>, mutants |-> ms, files |-> fs]

\* Path::is_file on tree_root.join(relative_path)
is_file(full_path) ==
    /\ Len(full_path) > Len(tree_root)
    /\ SubSeq(full_path, 1, Len(tree_root)) = tree_root
    /\ LET rel == SubSeq(full_path, Len(tree_root) + 1, Len(full_path))
       IN rel \in PathUniverse /\ tree[rel] # "absent"

\* find_mod_source without the special case for mod.rs, lib.rs and main.rs.
find_mod_source_NoSpecialNames(root, parent, mod_name) ==
    LET parent_path == parent.tree_relative_path
        dir == with_extension_empty(parent_path)
        found == SelectSeq(ModTails,
                    LAMBDA tail : is_file(root \o join_tail(dir, mod_name, tail)))
    IN IF found # <<>> THEN <<join_tail(dir, mod_name, found[1])>> ELSE <<>>

find_mod_source(root, parent, mod_name) ==
    LET parent_path == parent.tree_relative_path
        dir == IF \/ path_ends_with_file(parent_path, "mod")
                  \/ path_ends_with_file(parent_path, "lib")
                  \/ path_ends_with_file(parent_path, "main")
               THEN path_parent(parent_path)
               ELSE with_extension_empty(parent_path)
        found == SelectSeq(ModTails,
                    LAMBDA tail : is_file(root \o join_tail(dir, mod_name, tail)))
    IN IF found # <<>> THEN <<join_tail(dir, mod_name, found[1])>> ELSE <<>>

\* What the adapter's top_source_files may return: <<>> for an Err, or the
\* root files of the package's targets, in the adapter's order.
top_source_files(root) ==
    LET paths == IF tree[P_main] # "absent" THEN <<P_lib, P_main>> ELSE <<P_lib>>
    IN { <<>>,
         [i \in 1..Len(paths) |->
            [tree_relative_path |-> paths[i], package |-> "pkg",
             code |-> tree[paths[i]], parent |-> 0]] }

\* SourceFile::new: <<the new SourceFile>>, or <<>> when the file cannot be read.
\* parent is history: the Arc of the file whose `mod` statement led here.
SourceFile_new(root, path, package, parent) ==
    IF Readable(tree[path])
    THEN <<[tree_relative_path |-> path, package |-> package,
            code |-> tree[path], parent |-> parent]>>
    ELSE <<>>

check_interrupted == IF interrupted THEN <<Err("Interrupted", "", <<>>)>> ELSE <<>>

\* walk_file on the SourceFile behind arc: ok is FALSE when the file fails to parse.
walk_file(root, arc, options, exprs) ==
    LET sf == heap[arc]
    IN IF ~Parses(sf.code)
       THEN [ok |-> FALSE, mutants |-> <<>>, more_files |-> <<>>]
       ELSE LET visitor == visit_file(SynFile(sf.code),
                                      [source_file |-> arc, error_exprs |-> exprs])
                found == [i \in 1..Len(visitor.external_mods) |->
                            find_mod_source(root, sf, visitor.external_mods[i])]
            IN [ok |-> TRUE, mutants |-> visitor.mutants, more_files |-> Flatten(found)]

\* Lines 64-75 of walk_tree: FALSE when the iteration ends at a `continue`.
GlobsPass(options, path) ==
    /\ ~(options.examine_globset # <<>>
            /\ ~globset_is_match(options.examine_globset[1], path))
    /\ ~(options.exclude_globset # <<>>
            /\ globset_is_match(options.exclude_globset[1], path))

\* Lines 76-85 of walk_tree: the two retain calls.
RetainNames(options, file_mutants) ==
    LET kept1 == IF options.examine_names # <<>> /\ options.examine_names[1] # {}
                 THEN SelectSeq(file_mutants,
                        LAMBDA m : names_is_match(options.examine_names[1], m))
                 ELSE file_mutants
    IN IF options.exclude_names # <<>> /\ options.exclude_names[1] # {}
       THEN SelectSeq(kept1, LAMBDA m : ~names_is_match(options.exclude_names[1], m))
       ELSE kept1

\* The loop body with the glob filters applied before the enqueueing.
EnqueueAndFilter_PruneFiltered(arc, fd) ==
    LET path == heap[arc].tree_relative_path
        made == [i \in 1..Len(fd.more_files) |->
                    SourceFile_new(tree_root, fd.more_files[i], heap[arc].package, arc)]
        failed == SelectSeq(fd.more_files, LAMBDA p : ~Readable(tree[p]))
    IN IF ~fd.ok
       THEN [err |-> <<Err("FileParseError", "", path)>>, more |-> <<>>,
             mutants |-> <<>>, files |-> <<>>]
       ELSE IF ~GlobsPass(opts, path)
       THEN [err |-> <<>>, more |-> <<>>, mutants |-> <<>>, files |-> <<>>]
       ELSE IF failed # <<>>
       THEN [err |-> <<Err("IoError", "", failed[1])>>, more |-> <<>>,
             mutants |-> <<>>, files |-> <<>>]
       ELSE [err |-> <<>>, more |-> Flatten(made),
             mutants |-> RetainNames(opts, fd.mutants), files |-> <<arc>>]

\* The loop body with the mutants appended before the glob filters.
EnqueueAndFilter_KeepMutants(arc, fd) ==
    LET path == heap[arc].tree_relative_path
        made == [i \in 1..Len(fd.more_files) |->
                    SourceFile_new(tree_root, fd.more_files[i], heap[arc].package, arc)]
        failed == SelectSeq(fd.more_files, LAMBDA p : ~Readable(tree[p]))
    IN IF ~fd.ok
       THEN [err |-> <<Err("FileParseError", "", path)>>, more |-> <<>>,
             mutants |-> <<>>, files |-> <<>>]
       ELSE IF failed # <<>>
       THEN [err |-> <<Err("IoError", "", failed[1])>>, more |-> <<>>,
             mutants |-> <<>>, files |-> <<>>]
       ELSE [err |-> <<>>, more |-> Flatten(made),
             mutants |-> RetainNames(opts, fd.mutants),
             files |-> IF GlobsPass(opts, path) THEN <<arc>> ELSE <<>>]

\* The loop body with files that have no mutant left out of files.
EnqueueAndFilter_SkipEmpty(arc, fd) ==
    LET path == heap[arc].tree_relative_path
        made == [i \in 1..Len(fd.more_files) |->
                    SourceFile_new(tree_root, fd.more_files[i], heap[arc].package, arc)]
        failed == SelectSeq(fd.more_files, LAMBDA p : ~Readable(tree[p]))
    IN IF ~fd.ok
       THEN [err |-> <<Err("FileParseError", "", path)>>, more |-> <<>>,
             mutants |-> <<>>, files |-> <<>>]
       ELSE IF failed # <<>>
       THEN [err |-> <<Err("IoError", "", failed[1])>>, more |-> <<>>,
             mutants |-> <<>>, files |-> <<>>]
       ELSE IF ~GlobsPass(opts, path) \/ RetainNames(opts, fd.mutants) = <<>>
       THEN [err |-> <<>>, more |-> Flatten(made), mutants |-> <<>>, files |-> <<>>]
       ELSE [err |-> <<>>, more |-> Flatten(made),
             mutants |-> RetainNames(opts, fd.mutants), files |-> <<arc>>]

\* Lines 56-88 of walk_tree, given walk_file's result fd for the popped Arc:
\* the error walk_tree returns with (err), or the SourceFiles it constructs
\* and enqueues (more), and the mutants and files it appends.
EnqueueAndFilter(arc, fd) ==
    LET path == heap[arc].tree_relative_path
        made == [i \in 1..Len(fd.more_files) |->
                    SourceFile_new(tree_root, fd.more_files[i], heap[arc].package, arc)]
        failed == SelectSeq(fd.more_files, LAMBDA p : ~Readable(tree[p]))
    IN IF ~fd.ok
       THEN [err |-> <<Err("FileParseError", "", path)>>, more |-> <<>>,
             mutants |-> <<>>, files |-> <<>>]
       ELSE IF failed # <<>>
       THEN [err |-> <<Err("IoError", "", failed[1])>>, more |-> <<>>,
             mutants |-> <<>>, files |-> <<>>]
       ELSE IF ~GlobsPass(opts, path)
       THEN [err |-> <<>>, more |-> Flatten(made), mutants |-> <<>>, files |-> <<>>]
       ELSE [err |-> <<>>, more |-> Flatten(made),
             mutants |-> RetainNames(opts, fd.mutants), files |-> <<arc>>]

\* The loop body with the glob filters applied before the file is parsed.
LoopBody_FilterFirst(arc) ==
    IF ~GlobsPass(opts, heap[arc].tree_relative_path)
    THEN [err |-> <<>>, more |-> <<>>, mutants |-> <<>>, files |-> <<>>]
    ELSE EnqueueAndFilter_PruneFiltered(arc,
             walk_file(tree_root, arc, opts, error_exprs))

\* The body of one iteration of walk_tree's loop after check_interrupted.
LoopBody(arc) == EnqueueAndFilter(arc, walk_file(tree_root, arc, opts, error_exprs))

Init ==
    /\ tree \in Trees
    /\ opts \in {[error_values |-> ev] @@ f : ev \in ErrorValueChoices, f \in FilterChoices}
    /\ interrupted = FALSE
    /\ pc = "start"
    /\ heap = <<>>
    /\ error_exprs = <<>>
    /\ file_queue = <<>>
    /\ source_file = 0
    /\ mutants = <<>>
    /\ files = <<>>
    /\ result = NoResult
    /\ walked = <<>>
    /\ tool_called = FALSE
    /\ arg = <<>>
    /\ ret = <<>>

\* walk_tree calling the adapter before it parses the error values.
Start_ToolFirst ==
    /\ pc = "start"
    /\ tool_called' = TRUE
    /\ LET bad == SelectSeq(opts.error_values, LAMBDA e : ParseExpr(e) = <<>>)
       IN \E top \in top_source_files(tree_root) :
            IF top = <<>>
            THEN /\ result' = Err("ToolError", "", <<>>)
                 /\ pc' = "done"
                 /\ UNCHANGED <<error_exprs, heap, file_queue>>
            ELSE IF bad # <<>>
            THEN /\ result' = Err("ConfigParseError", bad[1], <<>>)
                 /\ pc' = "done"
                 /\ UNCHANGED <<error_exprs, heap, file_queue>>
            ELSE /\ error_exprs' = [i \in 1..Len(opts.error_values) |->
                                      ParseExpr(opts.error_values[i])[1]]
                 /\ heap' = top
                 /\ file_queue' = [i \in 1..Len(top) |-> i]
                 /\ pc' = "loop"
                 /\ UNCHANGED result
    /\ UNCHANGED <<tree, opts, interrupted, source_file, mutants, files, walked>>
    /\ UNCHANGED <<arg, ret>>

\* walk_tree up to its loop: lines 42-49.
Start ==
    /\ pc = "start"
    /\ LET bad == SelectSeq(opts.error_values, LAMBDA e : ParseExpr(e) = <<>>)
       IN IF bad # <<>>
          THEN /\ result' = Err("ConfigParseError", bad[1], <<>>)
               /\ pc' = "done"
               /\ UNCHANGED <<error_exprs, tool_called, heap, file_queue>>
          ELSE /\ error_exprs' = [i \in 1..Len(opts.error_values) |->
                                    ParseExpr(opts.error_values[i])[1]]
               /\ tool_called' = TRUE
               /\ \E top \in top_source_files(tree_root) :
                    IF top = <<>>
                    THEN /\ result' = Err("ToolError", "", <<>>)
                         /\ pc' = "done"
                         /\ UNCHANGED <<heap, file_queue>>
                    ELSE /\ heap' = top
                         /\ file_queue' = [i \in 1..Len(top) |-> i]
                         /\ pc' = "loop"
                         /\ UNCHANGED result
    /\ UNCHANGED <<tree, opts, interrupted, source_file, mutants, files,
                   walked>>
    /\ UNCHANGED <<arg, ret>>

\* The loop head with the interruption flag checked before the first file only.
LoopHead_CheckOnce ==
    /\ pc = "loop"
    /\ IF file_queue = <<>>
       THEN /\ result' = Ok(mutants, files)
            /\ pc' = "done"
            /\ UNCHANGED <<file_queue, source_file>>
       ELSE /\ Len(walked) < MaxVisits
            /\ source_file' = Head(file_queue)
            /\ file_queue' = Tail(file_queue)
            /\ IF walked = <<>> /\ check_interrupted # <<>>
               THEN result' = check_interrupted[1] /\ pc' = "done"
               ELSE pc' = "walk" /\ UNCHANGED result
    /\ UNCHANGED <<tree, opts, interrupted, heap, error_exprs, mutants,
                   files, walked, tool_called>>
    /\ UNCHANGED <<arg, ret>>

\* The loop head popping the queue's back instead of its front.
LoopHead_PopBack ==
    /\ pc = "loop"
    /\ IF file_queue = <<>>
       THEN /\ result' = Ok(mutants, files)
            /\ pc' = "done"
            /\ UNCHANGED <<file_queue, source_file>>
       ELSE /\ Len(walked) < MaxVisits
            /\ source_file' = file_queue[Len(file_queue)]
            /\ file_queue' = SubSeq(file_queue, 1, Len(file_queue) - 1)
            /\ IF check_interrupted # <<>>
               THEN result' = check_interrupted[1] /\ pc' = "done"
               ELSE pc' = "walk" /\ UNCHANGED result
    /\ UNCHANGED <<tree, opts, interrupted, heap, error_exprs, mutants,
                   files, walked, tool_called>>
    /\ UNCHANGED <<arg, ret>>

\* The head of the loop, lines 50-51, and the return of line 89.
LoopHead ==
    /\ pc = "loop"
    /\ IF file_queue = <<>>
       THEN /\ result' = Ok(mutants, files)
            /\ pc' = "done"
            /\ UNCHANGED <<file_queue, source_file>>
       ELSE /\ Len(walked) < MaxVisits
            /\ source_file' = Head(file_queue)
            /\ file_queue' = Tail(file_queue)
            /\ IF check_interrupted # <<>>
               THEN result' = check_interrupted[1] /\ pc' = "done"
               ELSE pc' = "walk" /\ UNCHANGED result
    /\ UNCHANGED <<tree, opts, interrupted, heap, error_exprs, mutants,
                   files, walked, tool_called>>
    /\ UNCHANGED <<arg, ret>>

\* The rest of the iteration, lines 52-88.
WalkFile ==
    /\ pc = "walk"
    /\ walked' = Append(walked, source_file)
    /\ \E it \in {LoopBody(source_file)} :
          IF it.err # <<>>
          THEN /\ result' = it.err[1]
               /\ pc' = "done"
               /\ UNCHANGED <<heap, file_queue, mutants, files>>
          ELSE /\ heap' = heap \o it.more
               /\ file_queue' = file_queue \o [i \in 1..Len(it.more) |-> Len(heap) + i]
               /\ mutants' = mutants \o it.mutants
               /\ files' = files \o it.files
               /\ pc' = "loop"
               /\ UNCHANGED result
    /\ UNCHANGED <<tree, opts, interrupted, error_exprs, source_file,
                   tool_called>>
    /\ UNCHANGED <<arg, ret>>

\* The signal handler sets the interruption flag, at any time.
Interrupt ==
    /\ pc # "done"
    /\ ~interrupted
    /\ interrupted' = TRUE
    /\ UNCHANGED <<tree, opts, pc, heap, error_exprs, file_queue,
                   source_file, mutants, files, result, walked, tool_called>>
    /\ UNCHANGED <<arg, ret>>

Next == Start \/ LoopHead \/ WalkFile \/ Interrupt

Spec == Init /\ [][Next]_vars

(***************************************************************************)
(* Definitions the properties are stated with.                             *)
(***************************************************************************)
Range(seq) == {seq[i] : i \in 1..Len(seq)}

PathOf(arc) == heap[arc].tree_relative_path

\* The Arcs whose iteration ran to its end (walk_file and the enqueueing
\* returned no error).
Completed ==
    IF result.kind \in {"FileParseError", "IoError"}
    THEN SubSeq(walked, 1, Len(walked) - 1)
    ELSE walked

\* The Arcs constructed for the `mod` statements of the file behind arc, in
\* the order they were constructed.
ChildrenOf(arc) == SelectSeq([i \in 1..Len(heap) |-> i], LAMBDA c : heap[c].parent = arc)

\* The path filters, read off the options: the path matches the examine
\* globset when there is one, and not the exclude globset when there is one.
PathSelected(path) ==
    /\ opts.examine_globset = <<>> \/ path \in opts.examine_globset[1]
    /\ opts.exclude_globset = <<>> \/ path \notin opts.exclude_globset[1]

\* An item the visitor returns from without descending into it.
SkipsNode(node) ==
    CASE node.kind = "fn" ->
           node.unsafety \/ attrs_excluded(node.attrs) \/ node.body = <<>>
      [] node.kind = "implfn" ->
           \/ node.unsafety \/ attrs_excluded(node.attrs) \/ node.body = <<>>
           \/ node.ident = "new"
      [] node.kind = "impl" ->
           \/ attrs_excluded(node.attrs)
           \/ (node.trait_ # <<>> /\ node.trait_[Len(node.trait_)] = "Default")
      [] node.kind = "mod" -> attrs_excluded(node.attrs)
      [] OTHER -> FALSE

\* Every `mod name;` statement written in a syntax tree, in source order;
\* skipped tells whether it carries a skip attribute itself or is nested in
\* an item the visitor skips.
RECURSIVE DeclaredMods(_, _, _)
DeclaredMods(items, k, skipped) ==
    IF k > Len(items) THEN <<>>
    ELSE LET node == items[k]
             this == IF node.kind = "mod" /\ ~node.inline
                     THEN <<[name |-> node.ident,
                             skipped |-> skipped \/ attrs_excluded(node.attrs)]>>
                     ELSE <<>>
         IN this \o DeclaredMods(node.body, 1, skipped \/ SkipsNode(node))
                 \o DeclaredMods(items, k + 1, skipped)

\* The files the given `mod` statements of the file behind arc resolve to.
ResolvedPaths(arc, decls) ==
    Flatten([i \in 1..Len(decls) |->
                find_mod_source(tree_root, heap[arc], decls[i].name)])

VisitedMods(arc) ==
    SelectSeq(DeclaredMods(SynFile(heap[arc].code), 1, FALSE), LAMBDA d : ~d.skipped)

(***************************************************************************)
(* C1.  Glob filtering never prunes module traversal: for every visited    *)
(* file whose path fails the examine globset or matches the exclude        *)
(* globset, every `mod` statement the visitor records that resolves to a   *)
(* file has a SourceFile constructed and enqueued for it, which is still   *)
(* queued or has been popped (and after an Ok return has been visited),    *)
(* while the filtered file is not in files and has no mutant in mutants.   *)
(***************************************************************************)
C1_FilterDoesNotPrune ==
    \A i \in 1..Len(Completed) :
        LET arc == Completed[i]
            kids == ChildrenOf(arc)
        IN ~PathSelected(PathOf(arc)) =>
             /\ [k \in 1..Len(kids) |-> PathOf(kids[k])]
                    = ResolvedPaths(arc, VisitedMods(arc))
             /\ \A k \in 1..Len(kids) :
                    \/ kids[k] \in Range(file_queue)
                    \/ kids[k] \in Range(walked)
                    \/ kids[k] = source_file
             /\ result.kind = "Ok" => \A k \in 1..Len(kids) : kids[k] \in Range(walked)
             /\ arc \notin Range(files)
             /\ \A j \in 1..Len(mutants) : mutants[j].source_file # arc

\* A walk returned Ok in which a filtered file's module was visited and listed.
C1_Witness ==
    /\ result.kind = "Ok"
    /\ \E arc \in Range(walked) :
          /\ ~PathSelected(PathOf(arc))
          /\ \E c \in Range(result.files) :
                /\ heap[c].parent = arc
                /\ \E j \in 1..Len(result.mutants) : result.mutants[j].source_file = c

(***************************************************************************)
(* C4.  In every state of the walk and in the returned Discovered, every   *)
(* mutant's source_file is (the same Arc as) an element of files; and a    *)
(* step appends mutants only of the file it appends to files.              *)
(***************************************************************************)
C4_SourceFileListed ==
    /\ \A j \in 1..Len(mutants) : mutants[j].source_file \in Range(files)
    /\ \A j \in 1..Len(result.mutants) :
          result.mutants[j].source_file \in Range(result.files)

C4_AppendTogether ==
    Len(mutants') > Len(mutants) =>
        /\ files' = Append(files, source_file)
        /\ \A j \in (Len(mutants) + 1)..Len(mutants') :
              mutants'[j].source_file = source_file

\* C4.  Every mutant's source_file is an element of files in every state, and
\* mutants are appended only together with their file.
C4_MutantsOfListedFiles == []C4_SourceFileListed /\ [][C4_AppendTogether]_vars

\* Mutants were collected although an earlier file with functions was filtered.
C4_Witness ==
    /\ result.kind = "Ok"
    /\ result.mutants # <<>>
    /\ \E arc \in Range(walked) :
          /\ arc \notin Range(result.files)
          /\ heap[arc].code \in {"L1", "L3", "A1"}

(***************************************************************************)
(* C8.  A visited file is in files if and only if its path matches the     *)
(* examine globset (when one is configured) and does not match the exclude *)
(* globset (when one is configured), whatever the number of its mutants.   *)
(***************************************************************************)
C8_ListedIffSelected ==
    /\ \A i \in 1..Len(Completed) :
          Completed[i] \in Range(files) <=> PathSelected(PathOf(Completed[i]))
    /\ Range(files) \subseteq Range(Completed)
    /\ result.kind = "Ok" => result.files = files

\* A file without functions to mutate is listed, and so is a file all of
\* whose mutants the name filters removed.
C8_Witness ==
    /\ result.kind = "Ok"
    /\ \E arc \in Range(result.files) :
          /\ heap[arc].code \in {"L2", "L4"}
    /\ \E arc \in Range(result.files) :
          /\ heap[arc].code \in {"L1", "L3", "A1"}
          /\ \A j \in 1..Len(result.mutants) : result.mutants[j].source_file # arc

(***************************************************************************)
(* C2.  The module references the walker follows form a tree: no file is   *)
(* enqueued as a descendant of itself, so the queue runs empty.  (The      *)
(* walk is deterministic, so a file enqueued beneath itself is enqueued    *)
(* beneath itself again at every later visit, and the queue never runs     *)
(* empty.)                                                                 *)
(***************************************************************************)
RECURSIVE AncestorPaths(_)
AncestorPaths(arc) ==
    IF heap[arc].parent = 0 THEN {}
    ELSE {PathOf(heap[arc].parent)} \cup AncestorPaths(heap[arc].parent)

C2_NoModuleCycle == \A c \in 1..Len(heap) : PathOf(c) \notin AncestorPaths(c)

(***************************************************************************)
(* C3.  In the returned Discovered, two distinct mutants of the same file  *)
(* (same tree-relative path) with the same function_name have different    *)
(* replacement texts.                                                      *)
(***************************************************************************)
C3_DistinctReplacements ==
    result.kind = "Ok" =>
        \A i, j \in 1..Len(result.mutants) :
            LET m1 == result.mutants[i]
                m2 == result.mutants[j]
            IN (/\ i < j
                /\ PathOf(m1.source_file) = PathOf(m2.source_file)
                /\ m1.function_name = m2.function_name)
               => m1.replacement # m2.replacement

(***************************************************************************)
(* C5.  When a file has been popped and the interruption flag is set,      *)
(* walk_tree returns the cancellation failure without walking that file    *)
(* or any later one, and returns none of the mutants and files collected   *)
(* before; a file is walked only if the flag was clear when it was popped. *)
(***************************************************************************)
C5_InterruptedResult ==
    result.kind = "Interrupted" =>
        /\ pc = "done"
        /\ interrupted
        /\ source_file \notin Range(walked)
        /\ result.mutants = <<>>
        /\ result.files = <<>>

C5_CheckedAtEveryIteration ==
    /\ (pc = "loop" /\ file_queue # <<>> /\ interrupted /\ pc' # pc) =>
          /\ result'.kind = "Interrupted"
          /\ pc' = "done"
          /\ walked' = walked
    /\ (pc = "loop" /\ pc' = "walk") => ~interrupted
    /\ pc = "done" => walked' = walked

\* C5.  A set flag seen at the head of an iteration ends the walk with the
\* cancellation failure and nothing else, and no file is walked past it.
C5_Cancellation == []C5_InterruptedResult /\ [][C5_CheckedAtEveryIteration]_vars

\* The walk was cancelled after it had collected mutants, with files queued.
C5_Witness ==
    /\ result.kind = "Interrupted"
    /\ mutants # <<>>
    /\ files # <<>>
    /\ file_queue # <<>>

(***************************************************************************)
(* C6.  Files are visited in the order they were enqueued (entry files in  *)
(* the adapter's order, then, file after file, the modules of each visited *)
(* file in declaration order); files lists the visited files that pass     *)
(* the glob filters in that order; mutants is ordered by file, and within  *)
(* a file by source position, a function before the items nested in it.    *)
(***************************************************************************)
\* s1 is at or before s2 in source order, a position coming before the
\* positions nested in it.
RECURSIVE SpanLE(_, _)
SpanLE(s1, s2) ==
    IF s1 = <<>> THEN TRUE
    ELSE IF s2 = <<>> THEN FALSE
    ELSE IF Head(s1) # Head(s2) THEN Head(s1) < Head(s2)
    ELSE SpanLE(Tail(s1), Tail(s2))

IndexIn(seq, x) == CHOOSE k \in 1..Len(seq) : seq[k] = x

C6_VisitationOrder ==
    /\ \A i \in 1..Len(walked) : walked[i] = i
    /\ \A c1, c2 \in 1..Len(heap) : c1 < c2 => heap[c1].parent <= heap[c2].parent
    /\ \A c \in 1..Len(heap) : heap[c].parent < c
    /\ \A i \in 1..Len(Completed) :
          LET kids == ChildrenOf(Completed[i])
          IN [k \in 1..Len(kids) |-> PathOf(kids[k])]
                = ResolvedPaths(Completed[i], VisitedMods(Completed[i]))
    /\ files = SelectSeq(Completed, LAMBDA arc : PathSelected(PathOf(arc)))
    /\ \A i, j \in 1..Len(mutants) :
          i < j =>
            \/ IndexIn(files, mutants[i].source_file)
                  < IndexIn(files, mutants[j].source_file)
            \/ /\ mutants[i].source_file = mutants[j].source_file
               /\ SpanLE(mutants[i].span, mutants[j].span)
    /\ result.kind = "Ok" => result.mutants = mutants /\ result.files = files

\* Two entry files with modules each were visited, and a nested function
\* produced mutants after its outer function.
C6_Witness ==
    /\ result.kind = "Ok"
    /\ Len(result.files) >= 5
    /\ \E c1, c2 \in Range(walked) : heap[c1].parent = 1 /\ heap[c2].parent = 2
    /\ \E i, j \in 1..Len(result.mutants) :
          /\ i < j
          /\ result.mutants[i].source_file = result.mutants[j].source_file
          /\ Len(result.mutants[i].span) < Len(result.mutants[j].span)

(***************************************************************************)
(* C7.  Module discovery is the transitive closure from the entry set.     *)
(* As claimed: every `mod name;` statement of a visited file that resolves *)
(* to a file causes an enqueue, also one carrying #[cfg(test)] or          *)
(* #[mutants::skip] or written inside a skipped function.                  *)
(***************************************************************************)
C7_EveryModEnqueued ==
    \A i \in 1..Len(Completed) :
        LET kids == ChildrenOf(Completed[i])
        IN [k \in 1..Len(kids) |-> PathOf(kids[k])]
              = ResolvedPaths(Completed[i],
                              DeclaredMods(SynFile(heap[Completed[i]].code), 1, FALSE))

EntryPaths == IF tree[P_main] # "absent" THEN {P_lib, P_main} ELSE {P_lib}

\* The paths reachable from S through the `mod` statements the visitor reaches.
RECURSIVE ModuleClosure(_)
ModuleClosure(S) ==
    LET step == S \cup UNION { IF Parses(tree[p])
                               THEN { find_mod_source(tree_root,
                                          [tree_relative_path |-> p], d.name)[1] :
                                        d \in { d \in Range(SelectSeq(
                                                    DeclaredMods(SynFile(tree[p]), 1, FALSE),
                                                    LAMBDA x : ~x.skipped)) :
                                                find_mod_source(tree_root,
                                                    [tree_relative_path |-> p], d.name)
                                                  # <<>> } }
                               ELSE {} : p \in S }
    IN IF step = S THEN S ELSE ModuleClosure(step)

(***************************************************************************)
(* C7, amended.  A file is enqueued if and only if it is an entry file or  *)
(* a `mod name;` statement that the visitor reaches in an already visited  *)
(* file resolves to it; a statement that carries a skip attribute or is    *)
(* nested in a skipped item causes no enqueue; and when walk_tree returns  *)
(* Ok the parsed files are the files reachable through those statements.   *)
(***************************************************************************)
C7_VisitedModsEnqueued ==
    /\ \A c \in 1..Len(heap) :
          IF heap[c].parent = 0 THEN PathOf(c) \in EntryPaths
          ELSE /\ heap[c].parent \in Range(Completed)
               /\ PathOf(c) \in Range(ResolvedPaths(heap[c].parent,
                                                    VisitedMods(heap[c].parent)))
    /\ \A i \in 1..Len(Completed) :
          LET kids == ChildrenOf(Completed[i])
          IN [k \in 1..Len(kids) |-> PathOf(kids[k])]
                = ResolvedPaths(Completed[i], VisitedMods(Completed[i]))
    /\ pc # "start" /\ result.kind # "ToolError" /\ result.kind # "ConfigParseError"
          => EntryPaths \subseteq {PathOf(c) : c \in 1..Len(heap)}
    /\ result.kind = "Ok" => {PathOf(arc) : arc \in Range(walked)} = ModuleClosure(EntryPaths)

\* A walk returned Ok that never visited an existing file which a skipped
\* `mod` statement of a visited file resolves to.
C7_Witness ==
    /\ result.kind = "Ok"
    /\ \E arc \in Range(walked) :
          \E p \in Range(ResolvedPaths(arc,
                    SelectSeq(DeclaredMods(SynFile(heap[arc].code), 1, FALSE),
                              LAMBDA d : d.skipped))) :
              p \notin {PathOf(a) : a \in Range(walked)}

(***************************************************************************)
(* C9.  If an error value fails to parse, walk_tree returns a failure      *)
(* naming the first such text, before top_source_files is called and       *)
(* before any file is parsed or any SourceFile constructed; there is no    *)
(* Discovered.                                                             *)
(***************************************************************************)
C9_ErrorValuesFirst ==
    LET bad == SelectSeq(opts.error_values, LAMBDA e : ParseExpr(e) = <<>>)
    IN /\ bad # <<>> =>
             /\ ~tool_called
             /\ walked = <<>>
             /\ heap = <<>>
             /\ result.kind \in {"none", "ConfigParseError"}
             /\ pc = "done" => result.kind = "ConfigParseError" /\ result.text = bad[1]
             /\ result.mutants = <<>> /\ result.files = <<>>
       /\ result.kind = "ConfigParseError" => bad # <<>>

\* The walk failed on the second error value, the first one being parseable.
C9_Witness ==
    /\ result.kind = "ConfigParseError"
    /\ result.text = EVBad
    /\ opts.error_values[1] = EV1

(***************************************************************************)
(* C10.  If a popped file fails to parse, or a file a `mod` statement      *)
(* resolves to cannot be loaded, walk_tree returns a failure and none of   *)
(* the mutants and files accumulated before; also for a file whose path    *)
(* the glob filters reject.                                                *)
(***************************************************************************)
C10_ParseFailureAborts ==
    /\ \A i \in 1..Len(walked) :
          LET arc == walked[i]
          IN /\ ~Parses(heap[arc].code) =>
                  /\ i = Len(walked)
                  /\ pc = "done"
                  /\ result.kind = "FileParseError"
                  /\ result.path = PathOf(arc)
                  /\ result.mutants = <<>> /\ result.files = <<>>
             /\ (/\ Parses(heap[arc].code)
                 /\ \E p \in Range(ResolvedPaths(arc, VisitedMods(arc))) :
                        ~Readable(tree[p])) =>
                  /\ i = Len(walked)
                  /\ pc = "done"
                  /\ result.kind = "IoError"
                  /\ result.mutants = <<>> /\ result.files = <<>>
    /\ result.kind \in {"FileParseError", "IoError"} => walked # <<>>

\* A file the glob filters reject failed to parse after mutants were collected.
C10_Witness ==
    /\ result.kind = "FileParseError"
    /\ ~PathSelected(result.path)
    /\ mutants # <<>>

(***************************************************************************)
(* return_type_replacements called on its own: the return type and the     *)
(* error expressions are drawn from the sets below, the call returns the   *)
(* replacements.  The variables of walk_tree stay as they are.             *)
(***************************************************************************)
walk_locals == <<tree, opts, interrupted, heap, error_exprs, file_queue,
                 source_file, mutants, files, result, walked, tool_called>>

\* walk_tree has not been called.
NoLocals ==
    /\ opts = [error_values |-> <<>>] @@ NoFilters
    /\ interrupted = FALSE
    /\ error_exprs = <<>>
    /\ file_queue = <<>>
    /\ source_file = 0
    /\ mutants = <<>>
    /\ files = <<>>
    /\ result = NoResult
    /\ walked = <<>>
    /\ tool_called = FALSE

NoWalk ==
    /\ tree = [p \in PathUniverse |-> "absent"]
    /\ heap = <<>>
    /\ NoLocals

\* How deep the generated types nest.
MaxDepth == 2

TP2(a, last) == TPath(<<Seg(a), last>>)
TP3(a, b, last) == TPath(<<Seg(a), Seg(b), last>>)
Gen1(ident, t) == SegA(ident, <<ArgType(t)>>)
Gen2(ident, t, u) == SegA(ident, <<ArgType(t), ArgType(u)>>)
GenL(ident, t) == SegA(ident, <<ArgLifetime("a"), ArgType(t)>>)

UnsignedNames == {"u8", "u16", "u32", "u64", "u128", "usize"}
SignedNames == {"i8", "i16", "i32", "i64", "i128", "isize"}
FloatNames == {"f32", "f64"}
NonZeroSignedNames ==
    {"NonZeroIsize", "NonZeroI8", "NonZeroI16", "NonZeroI32", "NonZeroI64",
     "NonZeroI128"}
NonZeroUnsignedNames ==
    {"NonZeroUsize", "NonZeroU8", "NonZeroU16", "NonZeroU32", "NonZeroU64",
     "NonZeroU128"}
ContainerNames == {"Box", "Cell", "RefCell", "Arc", "Rc", "Mutex"}
CollectionNames == {"BinaryHeap", "BTreeSet", "HashSet", "LinkedList", "VecDeque"}
\* Names no rule of type_replacements knows.
UnknownNames == {"Foo", "Cow", "char", "NonZero", "u256", "Bool", "string"}

ImplTrait == TOther(<<Id("impl"), Id("Iterator")>>)

CoreLeaves == {T1("bool"), T1("str"), TTuple(<<>>), TNever, T1("Foo"), T1("i32")}

CoreWrap(t) ==
    { TPath(<<Gen1("Result", t)>>), TPath(<<Gen1("Option", t)>>),
      TPath(<<Gen1("Box", t)>>), TPath(<<GenL("Cow", t)>>),
      TRef(FALSE, t), TArray(t, <<Lit("4")>>) }

RECURSIVE TypesCore(_)
TypesCore(d) ==
    IF d = 0 THEN CoreLeaves
    ELSE CoreLeaves \cup UNION {CoreWrap(t) : t \in TypesCore(d - 1)}

AllLeaves ==
    CoreLeaves
    \cup {T1(n) : n \in {"String", "HttpResponse", "Result"}
                        \cup UnsignedNames \cup SignedNames \cup FloatNames
                        \cup NonZeroSignedNames \cup NonZeroUnsignedNames
                        \cup UnknownNames}
    \cup {TP3("std", "primitive", Seg(n)) : n \in {"bool", "str", "u8", "i64", "f32"}}
    \cup {TP3("std", "string", Seg("String")), TP2("fmt", Seg("Result")),
          TP3("std", "num", Seg("NonZeroU8")), TP3("core", "num", Seg("NonZeroI64")),
          TP2("actix_web", Seg("HttpResponse")), TP2("foo", Seg("Bar")),
          TTuple(<<T1("bool"), T1("u8")>>), TTuple(<<T1("bool")>>), ImplTrait}

AllWrap(t) ==
    CoreWrap(t)
    \cup { TPath(<<Gen2("Result", t, T1("Error"))>>),
           TPath(<<Gen2("Result", T1("Foo"), t)>>),
           TP3("std", "result", Gen1("Result", t)),
           TPath(<<GenL("Result", t)>>),
           TP3("std", "option", Gen1("Option", t)),
           TPath(<<GenL("Option", t)>>),
           TPath(<<Gen1("Vec", t)>>), TP2("std", Gen1("Vec", t)),
           TPath(<<Gen2("Vec", t, T1("A"))>>),
           TPath(<<Gen2("HashMap", T1("String"), t)>>),
           TPath(<<Gen2("Arc", t, T1("A"))>>),
           TPath(<<GenL("Rc", t)>>),
           TPath(<<Gen2("HashSet", t, T1("S"))>>),
           TPath(<<GenL("BTreeSet", t)>>),
           TPath(<<Gen1("bool", t)>>),
           TPath(<<Gen1("HttpResponse", t)>>),
           TPath(<<Gen1("Foo", t)>>), TP2("foo", Gen1("Bar", t)),
           TPath(<<Gen1("Foo", t), Seg("Item")>>),
           TRef(TRUE, t), TArray(t, <<Id("N")>>) }
    \cup {TPath(<<Gen1(k, t)>>) : k \in ContainerNames \cup CollectionNames}
    \cup {TP3("alloc", "sync", Gen1("Arc", t)),
          TP3("std", "collections", Gen1("BTreeSet", t))}

\* The return types drawn: none, a leaf type, or a wrapper around a type
\* that nests less than d deep.
ReturnTypes(d) ==
    {ReturnDefault}
    \cup {ReturnOf(t) : t \in AllLeaves
                              \cup UNION {AllWrap(u) : u \in TypesCore(d - 1)}}

ErrorExprChoices ==
    { <<>>, <<ParseExpr(EV1)[1]>>, <<ParseExpr(EV2)[1], ParseExpr(EV1)[1]>> }

InitReplacements ==
    /\ NoWalk
    /\ pc = "call"
    /\ arg \in [return_type : ReturnTypes(MaxDepth), error_exprs : ErrorExprChoices]
    /\ ret = <<>>

CallReturnTypeReplacements ==
    /\ pc = "call"
    /\ ret' = return_type_replacements(arg.return_type, arg.error_exprs)
    /\ pc' = "return"
    /\ UNCHANGED arg
    /\ UNCHANGED walk_locals

NextReplacements == CallReturnTypeReplacements

SpecReplacements == InitReplacements /\ [][NextReplacements]_vars

\* The type of the call, when there is one, and its last path segment.
ArgType_ == arg.return_type.ty[1]
ArgIsPath == ~arg.return_type.default /\ ArgType_.k = "path"
ArgLast == LastSeg(ArgType_)
ArgLastIs(names) == ArgIsPath /\ ArgLast.ident \in names
\* The first generic argument of the last segment is a type.
ArgFirstIsType ==
    ArgLast.angle /\ Len(ArgLast.args) > 0 /\ ArgLast.args[1].g = "type"
\* The last segment has exactly one generic argument, a type.
ArgOnlyOneType ==
    ArgLast.angle /\ Len(ArgLast.args) = 1 /\ ArgLast.args[1].g = "type"
Strings(reps) == [i \in 1..Len(reps) |-> tokens_to_pretty_string(reps[i])]
ErrItems == [i \in 1..Len(arg.error_exprs) |->
                <<Id("Err"), G("paren", arg.error_exprs[i])>>]

(***************************************************************************)
(* C11.  For a return type whose last path segment is Result with a first  *)
(* generic argument that is a type T, the replacements are Ok(r) for each  *)
(* r of the replacements of T (with the same error expressions), in their  *)
(* order, followed by Err(e) for each error expression e, in their order;  *)
(* for Result without generic arguments they are Ok(Default::default())    *)
(* followed by the Err(e) items.                                           *)
(***************************************************************************)
C11_ResultReplacements ==
    (pc = "return" /\ ArgLastIs({"Result"})) =>
        IF ArgFirstIsType
        THEN LET inner == type_replacements(ArgLast.args[1].ty[1], arg.error_exprs)
             IN ret = [i \in 1..Len(inner) |-> <<Id("Ok"), G("paren", inner[i])>>]
                        \o ErrItems
        ELSE ~ArgLast.angle =>
                /\ Strings(ret)[1] = "Ok(Default::default())"
                /\ SubSeq(ret, 2, Len(ret)) = ErrItems

\* Result<Result<bool>> with one error expression gave the four replacements.
C11_Witness ==
    /\ pc = "return"
    /\ arg.return_type = ReturnOf(TPath(<<Gen1("Result", TPath(<<Gen1("Result", T1("bool"))>>))>>))
    /\ Len(arg.error_exprs) = 1
    /\ Strings(ret) = <<"Ok(Ok(true))", "Ok(Ok(false))",
                        "Ok(Err(anyhow!(\"mutated\")))", "Err(anyhow!(\"mutated\"))">>

\* The type is a path of one segment without generic arguments, named in names.
ArgIsBare(names) ==
    /\ ArgIsPath
    /\ ~ArgType_.lead
    /\ Len(ArgType_.segs) = 1
    /\ ~ArgLast.angle
    /\ ArgLast.ident \in names

\* The type arguments of the last segment, lifetimes left out.
ArgTypeArgs == SelectSeq(ArgLast.args, LAMBDA a : a.g = "type")

\* A path no rule of the table classifies.
ArgIsOtherPath ==
    /\ ArgIsPath
    /\ ~ArgIsBare({"bool", "String", "str"} \cup UnsignedNames \cup SignedNames
                    \cup FloatNames)
    /\ ArgLast.ident \notin NonZeroSignedNames \cup NonZeroUnsignedNames
                              \cup {"Result", "HttpResponse"}
    /\ ~(ArgLast.ident \in {"Option", "Vec"} /\ ArgFirstIsType)
    /\ Len(ArgTypeArgs) # 1

(***************************************************************************)
(* C12.  For the classifications that do not recurse, the replacements are *)
(* the fixed list of the table, whatever the error expressions are: no     *)
(* return type gives (); bool gives true, false; String gives              *)
(* String::new(), "xyzzy".into(); str gives "", "xyzzy"; the unsigned      *)
(* integers give 0, 1; the signed integers 0, 1, -1; the signed NonZero    *)
(* types 1, -1; the unsigned NonZero types 1; the floats 0.0, 1.0, -1.0;   *)
(* the unit type (); the never type nothing; HttpResponse                  *)
(* HttpResponse::Ok().finish(); any other path and any other type          *)
(* Default::default().                                                     *)
(***************************************************************************)
C12_DispatchTable ==
    pc = "return" =>
        /\ arg.return_type.default => Strings(ret) = <<"()">>
        /\ ArgIsBare({"bool"}) => Strings(ret) = <<"true", "false">>
        /\ ArgIsBare({"String"}) =>
              Strings(ret) = <<"String::new()", "\"xyzzy\".into()">>
        /\ ArgIsBare({"str"}) => Strings(ret) = <<"\"\"", "\"xyzzy\"">>
        /\ ArgIsBare(UnsignedNames) => Strings(ret) = <<"0", "1">>
        /\ ArgIsBare(SignedNames) => Strings(ret) = <<"0", "1", "-1">>
        /\ ArgLastIs(NonZeroSignedNames) => Strings(ret) = <<"1", "-1">>
        /\ ArgLastIs(NonZeroUnsignedNames) => Strings(ret) = <<"1">>
        /\ ArgIsBare(FloatNames) => Strings(ret) = <<"0.0", "1.0", "-1.0">>
        /\ (~arg.return_type.default /\ ArgType_.k = "tuple" /\ ArgType_.elem = <<>>)
              => Strings(ret) = <<"()">>
        /\ (~arg.return_type.default /\ ArgType_.k = "never") => ret = <<>>
        /\ ArgLastIs({"HttpResponse"}) =>
              Strings(ret) = <<"HttpResponse::Ok().finish()">>
        /\ ArgIsOtherPath => Strings(ret) = <<"Default::default()">>
        /\ (/\ ~arg.return_type.default
            /\ \/ ArgType_.k = "other"
               \/ ArgType_.k = "tuple" /\ ArgType_.elem # <<>>)
              => Strings(ret) = <<"Default::default()">>

\* A function without a return type was given the single replacement (),
\* with error expressions configured.
C12_Witness ==
    /\ pc = "return"
    /\ arg.return_type.default
    /\ arg.error_exprs # <<>>
    /\ Strings(ret) = <<"()">>

\* The rendered replacements of the type t with the error expressions of the call.
InnerStrings(t) == Strings(type_replacements(t, arg.error_exprs))

\* A path with one type argument that is none of the known types.
ArgIsUnknownGeneric ==
    /\ ArgIsPath
    /\ Len(ArgTypeArgs) = 1
    /\ ArgLast.ident \notin NonZeroSignedNames \cup NonZeroUnsignedNames
                              \cup {"Result", "HttpResponse"}
    /\ ~(ArgLast.ident \in {"Option", "Vec"} /\ ArgFirstIsType)
    /\ ~(ArgLast.ident \in ContainerNames \cup CollectionNames /\ ArgOnlyOneType)

(***************************************************************************)
(* C13.  For the containers that have an empty form the list is the empty  *)
(* constructor followed by the wrapped replacements of the inner type, in  *)
(* their order: Option<T> gives None, then Some(r); Vec<T> gives vec![],   *)
(* then vec![r]; a known collection K<T> gives K::new(), then              *)
(* K::from_iter([r]); any other path whose last segment has exactly one    *)
(* type argument, lifetimes left out, gives K::new(), then for each r      *)
(* K::from_iter([r]), K::new(r), K::from(r).                               *)
(***************************************************************************)
C13_EmptyFormContainers ==
    pc = "return" =>
        /\ (ArgLastIs({"Option"}) /\ ArgFirstIsType) =>
              LET in == InnerStrings(ArgLast.args[1].ty[1])
              IN Strings(ret) = <<"None">>
                    \o [i \in 1..Len(in) |-> "Some(" \o in[i] \o ")"]
        /\ (ArgLastIs({"Vec"}) /\ ArgFirstIsType) =>
              LET in == InnerStrings(ArgLast.args[1].ty[1])
              IN Strings(ret) = <<"vec![]">>
                    \o [i \in 1..Len(in) |-> "vec![" \o in[i] \o "]"]
        /\ (ArgLastIs(CollectionNames) /\ ArgOnlyOneType) =>
              LET in == InnerStrings(ArgLast.args[1].ty[1])
                  K == ArgLast.ident
              IN Strings(ret) = <<K \o "::new()">>
                    \o [i \in 1..Len(in) |-> K \o "::from_iter([" \o in[i] \o "])"]
        /\ ArgIsUnknownGeneric =>
              LET in == InnerStrings(ArgTypeArgs[1].ty[1])
                  K == ArgLast.ident
              IN /\ Len(ret) = 1 + 3 * Len(in)
                 /\ Strings(ret)[1] = K \o "::new()"
                 /\ \A i \in 1..Len(in) :
                       /\ Strings(ret)[3 * i - 1] = K \o "::from_iter([" \o in[i] \o "])"
                       /\ Strings(ret)[3 * i] = K \o "::new(" \o in[i] \o ")"
                       /\ Strings(ret)[3 * i + 1] = K \o "::from(" \o in[i] \o ")"

\* Cow<'a, str> gave the seven replacements of the unit test.
C13_Witness ==
    /\ pc = "return"
    /\ arg.return_type = ReturnOf(TPath(<<GenL("Cow", T1("str"))>>))
    /\ Strings(ret) = <<"Cow::new()", "Cow::from_iter([\"\"])", "Cow::new(\"\")",
                        "Cow::from(\"\")", "Cow::from_iter([\"xyzzy\"])",
                        "Cow::new(\"xyzzy\")", "Cow::from(\"xyzzy\")">>

ArgIsRef(mut) == ~arg.return_type.default /\ ArgType_.k = "ref" /\ ArgType_.mut = mut
ArgElemIsBareStr ==
    /\ ArgType_.elem[1].k = "path"
    /\ ~ArgType_.elem[1].lead
    /\ ArgType_.elem[1].segs = <<Seg("str")>>

(***************************************************************************)
(* C14.  For the wrapper types the list is the image of the replacements   *)
(* of the inner type, one item for each and in their order (so it is empty *)
(* when they are): [T; N] gives [r; N]; &T, T not the bare str, gives &r;  *)
(* &str gives "", "xyzzy"; &mut T gives Box::leak(Box::new(r)); a known    *)
(* container K<T> with exactly one type argument gives K::new(r), with     *)
(* only the last identifier of the path.                                   *)
(***************************************************************************)
C14_Wrappers ==
    pc = "return" =>
        /\ (~arg.return_type.default /\ ArgType_.k = "array") =>
              LET in == InnerStrings(ArgType_.elem[1])
                  N == tokens_to_pretty_string(ArgType_.toks)
              IN Strings(ret) = [i \in 1..Len(in) |-> "[" \o in[i] \o "; " \o N \o "]"]
        /\ (ArgIsRef(FALSE) /\ ~ArgElemIsBareStr) =>
              LET in == InnerStrings(ArgType_.elem[1])
              IN Strings(ret) = [i \in 1..Len(in) |-> "&" \o in[i]]
        /\ (ArgIsRef(FALSE) /\ ArgElemIsBareStr) =>
              Strings(ret) = <<"\"\"", "\"xyzzy\"">>
        /\ ArgIsRef(TRUE) =>
              LET in == InnerStrings(ArgType_.elem[1])
              IN Strings(ret) =
                    [i \in 1..Len(in) |-> "Box::leak(Box::new(" \o in[i] \o "))"]
        /\ (ArgLastIs(ContainerNames) /\ ArgOnlyOneType) =>
              LET in == InnerStrings(ArgLast.args[1].ty[1])
              IN Strings(ret) =
                    [i \in 1..Len(in) |-> ArgLast.ident \o "::new(" \o in[i] \o ")"]

\* alloc::sync::Arc<Option<bool>> gave Arc::new(..) items, without the path.
C14_Witness ==
    /\ pc = "return"
    /\ arg.return_type =
          ReturnOf(TP3("alloc", "sync", Gen1("Arc", TPath(<<Gen1("Option", T1("bool"))>>))))
    /\ Strings(ret) = <<"Arc::new(None)", "Arc::new(Some(true))", "Arc::new(Some(false))">>

(***************************************************************************)
(* C17.  The replacements of a path type depend on its last segment only:  *)
(* the path with its leading segments removed has the same replacements,   *)
(* for the same error expressions.                                         *)
(***************************************************************************)
C17_LastSegmentOnly ==
    (pc = "return" /\ ArgIsPath) =>
        ret = type_replacements(TPath(<<ArgLast>>), arg.error_exprs)

(***************************************************************************)
(* DiscoveryVisitor::visit_file called on its own, as walk_file calls it:  *)
(* on a new visitor and a syntax tree.  The tree holds one function under  *)
(* examination, drawn with every combination of attributes, signature and  *)
(* body below, inside each of the enclosing contexts below.  at is the     *)
(* position of that function in the tree; reached says that no enclosing   *)
(* item is one the visitor leaves out.                                     *)
(***************************************************************************)
MutantsSkip == Attr(<<"mutants", "skip">>)

AttrChoices ==
    { <<>>,
      <<Attr(<<"test">>)>>,
      <<CfgTest>>,
      <<AttrN(<<"cfg">>, << <<"unix">> >>)>>,
      <<AttrBad(<<"cfg">>, << <<"test">>, <<"feature">> >>)>>,
      <<AttrBad(<<"cfg">>, << <<"not">> >>)>>,
      <<MutantsSkip>>,
      <<AttrN(<<"cfg_attr">>, << <<"test">>, <<"mutants", "skip">> >>)>>,
      <<AttrN(<<"cfg_attr">>, << <<"test">>, <<"inline">> >>)>>,
      <<AttrBad(<<"cfg_attr">>, << <<"mutants", "skip">>, <<"doc">> >>)>>,
      <<Attr(<<"inline">>)>>,
      <<Attr(<<"inline">>), MutantsSkip>>,
      <<Attr(<<"tokio", "test">>)>>,
      <<Attr(<<"mutants">>)>> }

\* The bodies of the function under examination.
BodyChoices ==
    { <<>>,
      <<Stmt>>,
      <<Stmt, FnBool("g")>>,
      <<ModExt("x", <<>>), Impl(<<>>, <<>>, SelfX, <<MethodBool("m")>>),
        Other(<<FnBool("k")>>)>>,
      <<ModExt("y", <<CfgTest>>), Impl(<<MutantsSkip>>, <<>>, SelfX, <<MethodBool("n")>>),
        ModInline("z", <<>>, <<ModExt("x", <<>>), FnBool("k")>>)>> }

OutputChoices == {ReturnDefault, ReturnOf(T1("bool")), ReturnOf(TNever)}

\* An identifier and whether it is written raw (r#f).
IdentChoices == {<<"f", FALSE>>, <<"new", FALSE>>, <<"f", TRUE>>}

TheFnOf(kind, id, a, u, o, b) ==
    [kind |-> kind, ident |-> id[1], raw |-> id[2], attrs |-> a, unsafety |-> u,
     output |-> o, body |-> b, inline |-> TRUE, trait_ |-> <<>>, self_ty |-> <<>>]

\* A top-level function in its contexts.
FnContexts(F) ==
    { [syn_file |-> <<F>>, at |-> <<1>>, reached |-> TRUE],
      [syn_file |-> <<FnBool("a"), ModExt("w", <<>>), F>>, at |-> <<3>>, reached |-> TRUE],
      [syn_file |-> <<ModInline("m", <<>>, <<F>>)>>, at |-> <<1, 1>>, reached |-> TRUE],
      [syn_file |-> <<Fn("outer", <<>>, FALSE, ReturnDefault, <<Stmt, F>>)>>,
       at |-> <<1, 2>>, reached |-> TRUE],
      [syn_file |-> <<ModInline("m", <<CfgTest>>, <<F>>)>>, at |-> <<1, 1>>,
       reached |-> FALSE] }

\* A method in its contexts.
ImplFnContexts(F) ==
    { [syn_file |-> <<Impl(<<>>, <<>>, SelfX, <<F>>)>>, at |-> <<1, 1>>, reached |-> TRUE],
      [syn_file |-> <<Impl(<<>>, <<"fmt", "Display">>, SelfX, <<MethodBool("a"), F>>)>>,
       at |-> <<1, 2>>, reached |-> TRUE],
      [syn_file |-> <<ModInline("m", <<>>,
                        <<Impl(<<>>, <<"Iterator">>, <<Id("Y"), P("<"), Id("T"), P(">")>>,
                               <<F>>)>>)>>,
       at |-> <<1, 1, 1>>, reached |-> TRUE],
      [syn_file |-> <<Impl(<<>>, <<"Default">>, SelfX, <<F>>)>>, at |-> <<1, 1>>,
       reached |-> FALSE],
      [syn_file |-> <<Impl(<<MutantsSkip>>, <<>>, SelfX, <<F>>)>>, at |-> <<1, 1>>,
       reached |-> FALSE] }

InitVisit ==
    /\ NoWalk
    /\ pc = "call"
    /\ \E id \in IdentChoices, a \in AttrChoices, u \in BOOLEAN, o \in OutputChoices,
          b \in BodyChoices :
          \/ arg \in FnContexts(TheFnOf("fn", id, a, u, o, b))
          \/ arg \in ImplFnContexts(TheFnOf("implfn", id, a, u, o, b))
    /\ ret = <<>>

CallVisitFile ==
    /\ pc = "call"
    /\ ret' = visit_file(arg.syn_file,
                         [source_file |-> 1, error_exprs |-> <<ParseExpr(EV1)[1]>>])
    /\ pc' = "return"
    /\ UNCHANGED arg
    /\ UNCHANGED walk_locals

NextVisit == CallVisitFile

SpecVisit == InitVisit /\ [][NextVisit]_vars

IsPrefix(p, q) == Len(p) <= Len(q) /\ SubSeq(q, 1, Len(p)) = p

RECURSIVE NodeAt(_, _)
NodeAt(items, pos) ==
    IF Len(pos) = 1 THEN items[pos[1]]
    ELSE NodeAt(items[pos[1]].body, Tail(pos))

\* The function under examination.
TheFn == NodeAt(arg.syn_file, arg.at)

\* The attribute is #[test], #[cfg(.. test ..)], #[mutants::skip] or
\* #[cfg_attr(.., mutants::skip)], the nested meta of cfg and cfg_attr parsing.
AttrSkips(a) ==
    \/ a.path = <<"test">>
    \/ a.path = <<"mutants", "skip">>
    \/ a.path = <<"cfg">> /\ a.ok /\ <<"test">> \in Range(a.nested)
    \/ a.path = <<"cfg_attr">> /\ a.ok /\ <<"mutants", "skip">> \in Range(a.nested)

FnSkipped ==
    \/ TheFn.unsafety
    \/ \E a \in Range(TheFn.attrs) : AttrSkips(a)
    \/ TheFn.body = <<>>
    \/ TheFn.kind = "implfn" /\ TheFn.ident = "new" /\ ~TheFn.raw

\* The names of the external modules declared inside the bodies drawn.
BodyModNames == {"x", "y"}

ItemFiltered(node) ==
    \/ \E a \in Range(node.attrs) : AttrSkips(a)
    \/ node.kind = "impl" /\ node.trait_ # <<>> /\ node.trait_[Len(node.trait_)] = "Default"

\* The external `mod` statement at child j of the function's body is recorded.
BodyModRecorded(j) == TheFn.body[j].ident \in Range(ret.external_mods)

\* The impl block at child j of the function's body has produced mutants.
BodyImplMutated(j) ==
    \E m \in Range(ret.mutants) : IsPrefix(Append(arg.at, j), m.span)

BodyExternalMods ==
    {j \in 1..Len(TheFn.body) : TheFn.body[j].kind = "mod" /\ ~TheFn.body[j].inline}

BodyImpls == {j \in 1..Len(TheFn.body) : TheFn.body[j].kind = "impl"}

(***************************************************************************)
(* C16 as stated.  In the body of a skipped function, an external `mod x;` *)
(* is still recorded and the methods of an impl block still produce        *)
(* mutants, unless that module or impl is filtered by its own attributes.  *)
(***************************************************************************)
C16_NestedItemsOfSkippedFnVisited ==
    (pc = "return" /\ arg.reached /\ FnSkipped) =>
        /\ \A j \in BodyExternalMods :
              ~ItemFiltered(TheFn.body[j]) => BodyModRecorded(j)
        /\ \A j \in BodyImpls :
              ~ItemFiltered(TheFn.body[j]) => BodyImplMutated(j)

(***************************************************************************)
(* C16 as amended.  Nothing in the body of a skipped function is visited:  *)
(* an external `mod x;` in it is not recorded and the methods of an impl   *)
(* block in it produce no mutants.  In the body of a function that is not  *)
(* skipped they are recorded and do produce mutants, exactly when the      *)
(* module or impl is not filtered by its own attributes.                   *)
(***************************************************************************)
C16_SkippedFnNotDescended ==
    (pc = "return" /\ arg.reached) =>
        /\ \A j \in BodyExternalMods :
              BodyModRecorded(j) <=> (~FnSkipped /\ ~ItemFiltered(TheFn.body[j]))
        /\ \A j \in BodyImpls :
              BodyImplMutated(j) <=> (~FnSkipped /\ ~ItemFiltered(TheFn.body[j]))

\* A #[mutants::skip] function whose body declares `mod x;` and an impl
\* with a method: the module was not recorded, there is no mutant.
C16_Witness ==
    /\ pc = "return"
    /\ arg.reached
    /\ TheFn.kind = "fn"
    /\ TheFn.attrs = <<MutantsSkip>>
    /\ BodyExternalMods # {} /\ BodyImpls # {}
    /\ \A j \in BodyExternalMods \cup BodyImpls : ~ItemFiltered(TheFn.body[j])
    /\ "x" \notin Range(ret.external_mods)
    /\ \A m \in Range(ret.mutants) : ~IsPrefix(arg.at, m.span)

\* The name an item contributes to the namespace: a function its
\* identifier, a module its name, an impl block its type or
\* <impl Trait for Type>, other syntax nothing.
NameOf(node) ==
    CASE node.kind \in {"fn", "implfn"} ->
           <<IF node.raw THEN "r#" \o node.ident ELSE node.ident>>
      [] node.kind = "mod" -> <<node.ident>>
      [] node.kind = "impl" ->
           <<IF node.trait_ = <<>> THEN tokens_to_pretty_string(node.self_ty)
             ELSE "<impl " \o node.trait_[Len(node.trait_)] \o " for "
                    \o tokens_to_pretty_string(node.self_ty) \o ">">>
      [] OTHER -> <<>>

\* The names of the items on the way to position span, outermost first.
RECURSIVE EnclosingNames(_, _)
EnclosingNames(items, span) ==
    IF span = <<>> THEN <<>>
    ELSE NameOf(items[span[1]]) \o EnclosingNames(items[span[1]].body, Tail(span))

(***************************************************************************)
(* C19.  The namespace stack is paired over the visit of a file: every pop *)
(* of in_namespace removed the name its enter pushed, the stack is empty   *)
(* when the visit ends, and every mutant's function_name is the ::-join of *)
(* the names of the modules, impl blocks and functions enclosing its       *)
(* function, ending with the function's own identifier (so skipped items   *)
(* have pushed nothing).                                                   *)
(***************************************************************************)
C19_NamespacePaired ==
    pc = "return" =>
        /\ ret.paired
        /\ ret.namespace_stack = <<>>
        /\ \A m \in Range(ret.mutants) :
              LET names == EnclosingNames(arg.syn_file, m.span)
              IN /\ names # <<>>
                 /\ names[Len(names)] = NameOf(NodeAt(arg.syn_file, m.span))[1]
                 /\ NodeAt(arg.syn_file, m.span).kind \in {"fn", "implfn"}
                 /\ m.function_name = JoinWith(names, "::")

\* A function nested in a method of an impl block inside a module was named
\* with all four names.
C19_Witness ==
    /\ pc = "return"
    /\ ret.namespace_stack = <<>>
    /\ \E m \in Range(ret.mutants) :
          m.function_name = "m::<impl Iterator for Y<T>>::r#f::g"

(***************************************************************************)
(* walk_file called on its own, on one file of a source tree: the visitor  *)
(* collects the file's `mod` statements and find_mod_source resolves each  *)
(* of them against the tree.                                               *)
(***************************************************************************)
InitWalkFile ==
    /\ tree \in Trees
    /\ \E p \in PathUniverse :
          /\ tree[p] \notin {"absent", "unreadable"}
          /\ heap = <<[tree_relative_path |-> p, package |-> "pkg", code |-> tree[p],
                       parent |-> 0]>>
          /\ arg = p
    /\ NoLocals
    /\ pc = "call"
    /\ ret = <<>>

CallWalkFile ==
    /\ pc = "call"
    /\ ret' = walk_file(tree_root, 1, opts, error_exprs)
    /\ pc' = "return"
    /\ UNCHANGED arg
    /\ UNCHANGED walk_locals

NextWalkFile == CallWalkFile

SpecWalkFile == InitWalkFile /\ [][NextWalkFile]_vars

\* The directory the modules of the file at path p are searched in.
SearchDir(p) ==
    IF p[Len(p)] \in {RsFile("mod"), RsFile("lib"), RsFile("main")}
    THEN SubSeq(p, 1, Len(p) - 1)
    ELSE SubSeq(p, 1, Len(p) - 1) \o <<Dir(p[Len(p)].stem)>>

\* There is a regular file at the tree-relative path.
FileAt(rel) == rel \in PathUniverse /\ tree[rel] # "absent"

\* D/name.rs when it is a file, else D/name/mod.rs when it is, else nothing.
Probe(D, name) ==
    IF FileAt(Append(D, RsFile(name))) THEN <<Append(D, RsFile(name))>>
    ELSE IF FileAt(D \o <<Dir(name), RsFile("mod")>>)
    THEN <<D \o <<Dir(name), RsFile("mod")>>>>
    ELSE <<>>

(***************************************************************************)
(* C18.  The modules of a file are searched in the file's directory when   *)
(* it is named mod.rs, lib.rs or main.rs, and else in its path without the *)
(* extension; `mod name;` resolves to D/name.rs when that is a file, else  *)
(* to D/name/mod.rs when that is a file, else to nothing and without an    *)
(* error; whatever encloses the statement is of no account, and the other  *)
(* statements of the file are resolved the same when one does not resolve. *)
(***************************************************************************)
C18_FindModSource ==
    (pc = "return" /\ Parses(heap[1].code)) =>
        /\ ret.ok
        /\ LET mods == VisitedMods(1)
           IN ret.more_files =
                 Flatten([i \in 1..Len(mods) |-> Probe(SearchDir(arg), mods[i].name)])

\* src/lib.rs with `mod main; mod a;`, no src/main.rs, and both src/a.rs and
\* src/a/mod.rs: the first statement resolved to nothing, the second to src/a.rs.
C18_Witness ==
    /\ pc = "return"
    /\ arg = P_lib
    /\ tree[P_lib] = "L4"
    /\ tree[P_main] = "absent"
    /\ tree[P_a] # "absent" /\ tree[P_amod] # "absent"
    /\ ret.ok
    /\ ret.more_files = <<P_a>>

(***************************************************************************)
(* tokens_to_pretty_string called on its own, on the token sequences of at *)
(* most MaxTokens tokens over the tokens below.  The call returns the      *)
(* buffer (as its pieces), and whether each debug_assert of the call and   *)
(* of its recursive calls on the groups has held.                          *)
(***************************************************************************)
MaxTokens == 3

TokenChoices ==
    { Id("a"), Lit("1"), P(","), P(";"), P("-"), P(">"), P("+"),
      G("paren", <<>>), G("none", <<>>),
      G("bracket", <<Id("a"), P(",")>>),
      G("none", <<Lit("1")>>),
      G("brace", <<Id("a"), P(";")>>) }

\* The debug_assert of tokens_to_pretty_string, in the call on ts and in
\* the calls on the streams of its groups.
RECURSIVE debug_assert_holds(_)
debug_assert_holds(ts) ==
    /\ ~EndsWithSpace(PrettyPieces(ts))
    /\ \A i \in 1..Len(ts) : ts[i].t = "group" => debug_assert_holds(ts[i].ts)

InitPretty ==
    /\ NoWalk
    /\ pc = "call"
    /\ \E n \in 0..MaxTokens : arg \in [1..n -> TokenChoices]
    /\ ret = <<>>

CallTokensToPrettyString ==
    /\ pc = "call"
    /\ ret' = [b |-> PrettyPieces(arg),
               string |-> tokens_to_pretty_string(arg),
               asserted |-> debug_assert_holds(arg)]
    /\ pc' = "return"
    /\ UNCHANGED arg
    /\ UNCHANGED walk_locals

NextPretty == CallTokensToPrettyString

SpecPretty == InitPretty /\ [][NextPretty]_vars

(***************************************************************************)
(* C20.  For every sequence of identifiers, literals, punctuation and      *)
(* groups, tokens_to_pretty_string returns a string that does not end with *)
(* a space, and its debug assertion does not fail.                         *)
(***************************************************************************)
C20_NoTrailingSpace ==
    pc = "return" => (~EndsWithSpace(ret.b) /\ ret.asserted)
====
